---- MODULE Spec2Model ----
(***************************************************************************)
(* A model of jupiter-mcp-server: the wallet service, the two swap         *)
(* pipelines (V1ApiClient.completeSwap, JupiterService.completeSwap) and   *)
(* the tool handlers that drive them.  A string is a sequence of          *)
(* one-character strings where its characters matter (amounts), and an     *)
(* atom otherwise.  Error messages are sequences of message fragments.     *)
(***************************************************************************)
EXTENDS Integers, Sequences, FiniteSets, TLC

VARIABLES env, log, phase, config, wallet, initResult, initCalls, calls, ledger, inv,
          lastSign, lastSend, now, jupiterService, lookup

vars == <<env, log, phase, config, wallet, initResult, initCalls, calls, ledger, inv,
          lastSign, lastSend, now, jupiterService, lookup>>

\* Number of tool invocations that may be in flight at once.
MaxInv == 1

\* Number of swap invocations in flight at once where their interleavings are
\* studied.
MaxConc == 2

\* Number of tool invocations a run starts.
MaxCalls == 2

\* Number of clock steps a run takes.
MaxTime == 4

Slots == 1..MaxInv
ConcSlots == 1..MaxConc

(***************************************************************************)
(* Values                                                                  *)
(***************************************************************************)
Null == "<null>"

SOL_MINT == "So11111111111111111111111111111111111111112"
USDC_MINT == "EPjFWdd5AufqSSqeM2qN1xzybapC8G4wEGGkZwyTDt1v"
BAD_MINT == "invalid-mint"

InputMints == {SOL_MINT, BAD_MINT}
OutputMints == {USDC_MINT, BAD_MINT}

\* The amount strings a caller may pass: "12", "12abc", "1.5", "", "abc", "-5".
AmountStrings ==
    { <<"1", "2">>, <<"1", "2", "a", "b", "c">>, <<"1", ".", "5">>,
      <<>>, <<"a", "b", "c">>, <<"-", "5">> }

GOOD_KEY == "base58-secret-key-of-64-bytes"
PrivateKeys == {"", "not-base58-0OIl", "base58-of-31-bytes", GOOD_KEY}

HTTPS_ENDPOINT == "https://api.mainnet-beta.solana.com"
RpcEndpoints == {HTTPS_ENDPOINT, "localhost:8899"}

\* The three named networks, and a value of SOLANA_NETWORK that is none of them.
MAINNET_BETA == "mainnet-beta"
Networks == {MAINNET_BETA, "testnet", "devnet"}
LOCALNET == "localnet"

SimulationErrors == {Null, "", "InstructionError"}

\* The default slippage tolerance, in basis points.
DEFAULT_SLIPPAGE_BPS == 50

\* slippageBps as the caller gives it: left out (undefined), or a number.
Undefined == [given |-> FALSE, bps |-> 0]
Bps(n) == [given |-> TRUE, bps |-> n]
Slippages == {Undefined, Bps(0), Bps(100)}

\* A boolean option as the caller gives it: left out (undefined), false or true.
NoFlag == [given |-> FALSE, on |-> FALSE]
Flag(b) == [given |-> TRUE, on |-> b]
Flags == {NoFlag, Flag(FALSE), Flag(TRUE)}

\* The options of a call.  slippageBps and onlyDirectRoutes are read
\* independently of each other: every value of either is given, not every pair.
Options ==
    { [slippage |-> Undefined, onlyDirectRoutes |-> NoFlag],
      [slippage |-> Bps(0), onlyDirectRoutes |-> Flag(FALSE)],
      [slippage |-> Bps(100), onlyDirectRoutes |-> Flag(TRUE)] }

\* A priority-fee policy (priorityLevelWithMaxLamports), or none given.
NoPolicy == [given |-> FALSE, maxLamports |-> 0, global |-> FALSE, priorityLevel |-> ""]
MAX_LAMPORTS == 1000000
DEFAULT_PRIORITY_FEE ==
    [given |-> TRUE, maxLamports |-> MAX_LAMPORTS, global |-> FALSE,
     priorityLevel |-> "veryHigh"]
CALLER_PRIORITY_FEE ==
    [given |-> TRUE, maxLamports |-> 5000, global |-> TRUE, priorityLevel |-> "medium"]

\* What confirmTransaction reports in value.err: null, or the network's
\* TransactionError, a string or an object.
ACCOUNT_IN_USE == "AccountInUse"
INSTRUCTION_ERROR == "InstructionError:[2,Custom:6001]"
TransactionErrors == {ACCOUNT_IN_USE, INSTRUCTION_ERROR}

(***************************************************************************)
(* Library functions the code calls                                        *)
(***************************************************************************)
\* new PublicKey(s) succeeds exactly on a base-58 string of 32 bytes.
createPublicKey(publicKeyString) ==
    IF publicKeyString \in {SOL_MINT, USDC_MINT}
    THEN [publicKey |-> publicKeyString, error |-> <<>>]
    ELSE [publicKey |-> Null, error |-> <<"Invalid public key: ", publicKeyString>>]

Digits == {"0", "1", "2", "3", "4", "5", "6", "7", "8", "9"}
WhiteSpace == {" "}

DigitValue(c) ==
    CASE c = "0" -> 0 [] c = "1" -> 1 [] c = "2" -> 2 [] c = "3" -> 3
      [] c = "4" -> 4 [] c = "5" -> 5 [] c = "6" -> 6 [] c = "7" -> 7
      [] c = "8" -> 8 [] c = "9" -> 9

DigitChar(d) ==
    CASE d = 0 -> "0" [] d = 1 -> "1" [] d = 2 -> "2" [] d = 3 -> "3"
      [] d = 4 -> "4" [] d = 5 -> "5" [] d = 6 -> "6" [] d = 7 -> "7"
      [] d = 8 -> "8" [] d = 9 -> "9"

RECURSIVE SkipWhiteSpace(_)
SkipWhiteSpace(s) ==
    IF s # <<>> /\ Head(s) \in WhiteSpace THEN SkipWhiteSpace(Tail(s)) ELSE s

\* The longest prefix of s made of digits.
RECURSIVE DigitPrefix(_)
DigitPrefix(s) ==
    IF s # <<>> /\ Head(s) \in Digits
    THEN <<Head(s)>> \o DigitPrefix(Tail(s))
    ELSE <<>>

RECURSIVE DigitsValue(_, _)
DigitsValue(s, acc) ==
    IF s = <<>> THEN acc ELSE DigitsValue(Tail(s), 10 * acc + DigitValue(Head(s)))

\* A JavaScript number: NaN, or the integer n.
NaN == [nan |-> TRUE, n |-> 0]
Number(n) == [nan |-> FALSE, n |-> n]

\* parseInt(s, 10): leading white space is skipped, a sign is read, then the
\* longest run of digits; what follows the digits is ignored; NaN without digits.
parseInt(s) ==
    LET t == SkipWhiteSpace(s)
        signed == t # <<>> /\ Head(t) \in {"-", "+"}
        body == IF signed THEN Tail(t) ELSE t
        ds == DigitPrefix(body)
    IN  IF ds = <<>> THEN NaN
        ELSE IF signed /\ Head(t) = "-" THEN Number(0 - DigitsValue(ds, 0))
        ELSE Number(DigitsValue(ds, 0))

isNaN(x) == x.nan

\* Number.prototype.toString() of an integer.
RECURSIVE NatToString(_)
NatToString(n) ==
    IF n < 10 THEN <<DigitChar(n)>>
    ELSE NatToString(n \div 10) \o <<DigitChar(n % 10)>>

numberToString(x) ==
    IF x.nan THEN <<"N", "a", "N">>
    ELSE IF x.n < 0 THEN <<"-">> \o NatToString(0 - x.n) ELSE NatToString(x.n)

\* JSON.stringify of a TransactionError: a string in double quotes, an object
\* in braces with its keys in double quotes.
JSONstringify(err) ==
    IF err = ACCOUNT_IN_USE THEN "\"AccountInUse\""
    ELSE "{\"InstructionError\":[2,{\"Custom\":6001}]}"

\* bs58.decode followed by Keypair.fromSecretKey: throws unless the string is
\* base-58 and decodes to a 64-byte secret key.
DecodesToKeypair(privateKey) == privateKey = GOOD_KEY

Sign_Stamped(transaction, privateKey) ==
    [transaction |-> transaction, signer |-> privateKey, stamp |-> calls]

\* transaction.sign([keypair]) and serialize().
Sign(transaction, privateKey) == [transaction |-> transaction, signer |-> privateKey]

\* The message of the Error bs58.decode or Keypair.fromSecretKey throws.
DecodeError(privateKey) ==
    IF privateKey = "base58-of-31-bytes" THEN "bad secret key size"
    ELSE "Non-base58 character"

\* keypair.publicKey.toString(): the base-58 public identity of the key.
PublicKeyOf(privateKey) ==
    IF privateKey = GOOD_KEY THEN "9WzDXwBbmkg8ZTbNMqUxvQRAyrZzDsGYdLVL9zYtAWWM"
    ELSE Null

\* The default RPC endpoint of a network; undefined for a name that is not a
\* key of the table.
DEFAULT_RPC_ENDPOINTS(network) ==
    CASE network = MAINNET_BETA -> HTTPS_ENDPOINT
      [] network = "testnet" -> "https://api.testnet.solana.com"
      [] network = "devnet" -> "https://api.devnet.solana.com"
      [] OTHER -> "<undefined>"

\* new Connection(endpoint, commitment) throws unless the endpoint is an
\* http: or https: URL.
ConnectionConstructs(endpoint) ==
    endpoint \in {DEFAULT_RPC_ENDPOINTS(n) : n \in Networks}

(***************************************************************************)
(* The environment, the logger and the configuration                       *)
(***************************************************************************)
\* An environment variable that is not set.
NotSet == "<not set>"

\* The environments the process may start in.
Envs ==
    [SOLANA_NETWORK : {NotSet, LOCALNET} \cup Networks,
     SOLANA_RPC_ENDPOINT : {NotSet} \cup RpcEndpoints,
     SOLANA_PRIVATE_KEY : {NotSet} \cup (PrivateKeys \ {""}),
     LOG_LEVEL : {NotSet, "debug"}]

\* `a || b` on strings: b replaces a value that is not set, undefined or "".
OrElse(a, b) == IF a \in {NotSet, "<undefined>", ""} THEN b ELSE a

\* The log levels, and the level LOG_LEVEL names (info by default).
LogLevel(name) ==
    CASE name = "error" -> 0 [] name = "warn" -> 1 [] name = "info" -> 2
      [] name = "debug" -> 3 [] OTHER -> 2

currentLogLevel(e) == LogLevel(OrElse(e.LOG_LEVEL, "info"))

\* A call of logger.error, warn, info or debug.
Line(level, text) == [level |-> level, text |-> text]

consoleMethod_ByLevel(level) == level

\* The console method a logger call of the level writes with: console.error
\* at every level.
consoleMethod(level) == "error"

\* The stream a console method writes to: stderr for console.error and
\* console.warn, stdout for the others.
StreamOf(method) == IF method \in {"error", "warn"} THEN "stderr" ELSE "stdout"

Written(l) ==
    [level |-> l.level, text |-> l.text, stream |-> StreamOf(consoleMethod(l.level))]

\* What the logger writes of the calls made: the calls at or under the
\* current level, each on the stream of its console method.
logger(e, lines) ==
    LET passed == SelectSeq(lines, LAMBDA l : currentLogLevel(e) >= LogLevel(l.level)) IN
    [k \in DOMAIN passed |-> Written(passed[k])]

REDACTED == "***REDACTED***"

\* The config object of config.ts: an unrecognized network is warned about
\* and kept.
loadConfig(e) ==
    [network |-> OrElse(e.SOLANA_NETWORK, MAINNET_BETA),
     rpcEndpoint |-> OrElse(e.SOLANA_RPC_ENDPOINT,
                        OrElse(DEFAULT_RPC_ENDPOINTS(OrElse(e.SOLANA_NETWORK, MAINNET_BETA)),
                               DEFAULT_RPC_ENDPOINTS(MAINNET_BETA))),
     privateKey |-> OrElse(e.SOLANA_PRIVATE_KEY, "")]

configLogs_PrintsKey(e, cfg) ==
    (IF cfg.network \notin Networks
     THEN <<Line("warn", <<"Invalid network specified: ", cfg.network,
                           ". Falling back to mainnet-beta.">>)>>
     ELSE <<>>)
    \o (IF e.LOG_LEVEL = "debug"
        THEN <<Line("debug", <<"Server configuration:", "network: ", cfg.network,
                               "rpcEndpoint: ", cfg.rpcEndpoint,
                               "privateKey: ", cfg.privateKey>>)>>
        ELSE <<>>)

\* The logger calls of config.ts: the warning about the network, and under
\* LOG_LEVEL=debug the configuration with the private key redacted.
configLogs(e, cfg) ==
    (IF cfg.network \notin Networks
     THEN <<Line("warn", <<"Invalid network specified: ", cfg.network,
                           ". Falling back to mainnet-beta.">>)>>
     ELSE <<>>)
    \o (IF e.LOG_LEVEL = "debug"
        THEN <<Line("debug", <<"Server configuration:", "network: ", cfg.network,
                               "rpcEndpoint: ", cfg.rpcEndpoint,
                               "privateKey: ",
                               IF cfg.privateKey # "" THEN REDACTED ELSE "Not provided">>)>>
        ELSE <<>>)

NoConfig == [network |-> NotSet, rpcEndpoint |-> NotSet, privateKey |-> NotSet]

(***************************************************************************)
(* WalletService                                                           *)
(***************************************************************************)
NoKeypair == [_keypair |-> Null, _connection |-> Null]

isInitialized(w) == w._keypair # Null /\ w._connection # Null

\* The publicKey getter: the key's public identity, or a throw.
publicKey(w) ==
    IF w._keypair = Null
    THEN [threw |-> TRUE, value |-> <<"Wallet not initialized">>]
    ELSE [threw |-> FALSE, value |-> <<PublicKeyOf(w._keypair)>>]

publicKeyString_Another(w) == "11111111111111111111111111111111"

\* The publicKeyString getter, where publicKey does not throw.
publicKeyString(w) == publicKey(w).value[1]

initialize_TrueBeforeConnection(cfg, w) ==
    IF cfg.privateKey = "" THEN [wallet |-> w, returned |-> FALSE, threw |-> FALSE]
    ELSE IF ~DecodesToKeypair(cfg.privateKey) THEN [wallet |-> w, returned |-> FALSE, threw |-> FALSE]
    ELSE IF ~ConnectionConstructs(cfg.rpcEndpoint)
         THEN [wallet |-> [w EXCEPT !._keypair = cfg.privateKey], returned |-> TRUE, threw |-> FALSE]
         ELSE [wallet |-> [_keypair |-> cfg.privateKey, _connection |-> cfg.rpcEndpoint],
               returned |-> TRUE, threw |-> FALSE]

\* initialize(): the wallet afterwards and the value returned.  Every throw in
\* the body is caught and turned into `return false`; the assignments made
\* before the throw stay.
initialize(cfg, w) ==
    IF cfg.privateKey = "" THEN [wallet |-> w, returned |-> FALSE, threw |-> FALSE]
    ELSE IF ~DecodesToKeypair(cfg.privateKey) THEN [wallet |-> w, returned |-> FALSE, threw |-> FALSE]
    ELSE IF ~ConnectionConstructs(cfg.rpcEndpoint)
         THEN [wallet |-> [w EXCEPT !._keypair = cfg.privateKey], returned |-> FALSE, threw |-> FALSE]
         ELSE [wallet |-> [_keypair |-> cfg.privateKey, _connection |-> cfg.rpcEndpoint],
               returned |-> TRUE, threw |-> FALSE]

\* The logger calls of initialize().
initializeLogs(cfg) ==
    IF cfg.privateKey = ""
    THEN <<Line("warn", <<"No private key provided in environment variables. Wallet features will be disabled.">>)>>
    ELSE IF ~DecodesToKeypair(cfg.privateKey)
    THEN <<Line("error", <<"Failed to initialize wallet:", DecodeError(cfg.privateKey)>>)>>
    ELSE IF ~ConnectionConstructs(cfg.rpcEndpoint)
    THEN <<Line("error", <<"Failed to initialize wallet:",
                           "Endpoint URL must start with http: or https:.">>)>>
    ELSE <<Line("info", <<"Wallet initialized with public key: ",
                          PublicKeyOf(cfg.privateKey)>>)>>

\* The logger calls of the module body of index.ts, around initialize().
indexLogs(cfg, w, walletInitialized) ==
    <<IF walletInitialized
      THEN Line("debug", <<"Wallet initialized successfully with public key: ">>
                         \o publicKey(w).value)
      ELSE Line("debug", <<"Wallet not initialized. Automatic swap execution will not be available.">>)>>

\* index, after the transport is connected and the handlers are registered.
startedLogs(cfg) ==
    <<Line("debug", <<"jupiter-mcp-server v1.0.0 started on network: ", cfg.network>>)>>

signTransaction_ForgetsKeyOnFailure(w, transaction) ==
    IF w._keypair = Null
    THEN [wallet |-> w, threw |-> TRUE, value |-> <<"Wallet not initialized">>,
          logged |-> <<>>]
    ELSE IF transaction = "unsignable"
    THEN [wallet |-> NoKeypair, threw |-> TRUE,
          value |-> <<"Failed to sign transaction: ", "Signature verification failed">>,
          logged |-> <<Line("error", <<"Error signing transaction:",
                                       "Signature verification failed">>)>>]
    ELSE [wallet |-> w, threw |-> FALSE, value |-> <<Sign(transaction, w._keypair)>>,
          logged |-> <<>>]

\* signTransaction(transaction): the base-64 signed transaction, or a throw;
\* and the wallet afterwards.
signTransaction(w, transaction) ==
    IF w._keypair = Null
    THEN [wallet |-> w, threw |-> TRUE, value |-> <<"Wallet not initialized">>,
          logged |-> <<>>]
    ELSE IF transaction = "unsignable"
    THEN [wallet |-> w, threw |-> TRUE,
          value |-> <<"Failed to sign transaction: ", "Signature verification failed">>,
          logged |-> <<Line("error", <<"Error signing transaction:",
                                       "Signature verification failed">>)>>]
    ELSE [wallet |-> w, threw |-> FALSE, value |-> <<Sign(transaction, w._keypair)>>,
          logged |-> <<>>]

\* maxRetries as the caller gives it: left out (undefined), or a number.
NoRetries == [given |-> FALSE, n |-> 0]
Retries(n) == [given |-> TRUE, n |-> n]

\* The options of a sendTransaction call.  skipPreflight and maxRetries are
\* read independently of each other: every value of either is given, not
\* every pair.
SendOptions ==
    { [skipPreflight |-> NoFlag, maxRetries |-> NoRetries],
      [skipPreflight |-> Flag(TRUE), maxRetries |-> Retries(0)],
      [skipPreflight |-> Flag(FALSE), maxRetries |-> Retries(5)] }

DEFAULT_MAX_RETRIES == 3

\* The options sendTransaction passes to sendRawTransaction:
\* `options.skipPreflight || false` and `options.maxRetries || 3`, the default
\* replacing every falsy value, 0 included.
sendOptions(options) ==
    [sent |-> TRUE,
     skipPreflight |-> options.skipPreflight.given /\ options.skipPreflight.on,
     maxRetries |-> IF ~options.maxRetries.given \/ options.maxRetries.n = 0
                    THEN DEFAULT_MAX_RETRIES ELSE options.maxRetries.n]

NoBroadcast == [sent |-> FALSE, skipPreflight |-> FALSE, maxRetries |-> 0]

\* sendTransaction(serializedTransaction, options): the signature
\* sendRawTransaction returned, or a throw; the broadcast call made; and the
\* wallet afterwards.
sendTransaction(w, serializedTransaction, options, outcome) ==
    IF w._connection = Null
    THEN [wallet |-> w, threw |-> TRUE, value |-> <<"Connection not initialized">>,
          logged |-> <<>>, broadcast |-> NoBroadcast]
    ELSE IF outcome = "throw"
    THEN [wallet |-> w, threw |-> TRUE,
          value |-> <<"Failed to send transaction: ">> \o <<"failed to send transaction">>,
          logged |-> <<Line("error", <<"Error sending transaction:",
                                       "failed to send transaction">>)>>,
          broadcast |-> sendOptions(options)]
    ELSE [wallet |-> w, threw |-> FALSE, value |-> <<"sig", serializedTransaction>>,
          logged |-> <<Line("info", <<"Transaction sent with signature: ", "sig",
                                      serializedTransaction>>)>>,
          broadcast |-> sendOptions(options)]

(***************************************************************************)
(* Tool invocations                                                        *)
(***************************************************************************)
SwapOps == {"executeV1SwapHandler", "V1ApiClient.completeSwap", "JupiterService.completeSwap"}
QuoteOps == {"getV1QuoteHandler", "getQuoteHandler"}

PIPELINE == <<"quote", "build", "sign", "submit", "confirm">>

WALLET_NOT_INITIALIZED == "Wallet not initialized. Cannot execute swap."
INVALID_AMOUNT == "Invalid amount. Please provide a valid number."

\* Errors thrown by the libraries, passed on by the code as they are.
FETCH_FAILED == <<"fetch failed">>
JSON_FAILED == <<"Unexpected token < in JSON at position 0">>
DESERIALIZE_FAILED == <<"Reached end of buffer unexpectedly">>
SEND_FAILED == <<"failed to send transaction">>
CONFIRM_TIMED_OUT == <<"Transaction was not confirmed in 30.00 seconds. It is unknown if it succeeded or failed.">>

Unset == "<unset>"

\* A field a JSON body does not have reads as undefined.
Missing == "<undefined>"

\* The objects of one swap: the quote the quote service returned, the unsigned
\* transaction the swap service built from a quote, the signed transaction,
\* and the signature sendRawTransaction returned.  req is the invocation whose
\* request the object answers: a response is an object of its own request.
NoQuote == [req |-> 0, inputMint |-> Unset, outputMint |-> Unset, outAmount |-> Unset]
NoTransaction == [req |-> 0, quote |-> NoQuote, bytes |-> Unset]
NoSigned == [transaction |-> NoTransaction, signer |-> Unset]
NoSignature == [signed |-> NoSigned]
NoSwapResult == [signature |-> NoSignature, confirmationStatus |-> Unset, outAmount |-> Unset]

\* The bodies an OK quote response may carry: a quote, or an object without
\* the fields of a quote ({}).
QuoteBodies == {"quote", "empty"}

\* response.json() of the quote response to the request of r.
QuoteData(r, body) ==
    IF body = "quote"
    THEN [req |-> r.id, inputMint |-> r.inputMint, outputMint |-> r.outputMint,
          outAmount |-> "1000"]
    ELSE [req |-> r.id, inputMint |-> Missing, outputMint |-> Missing, outAmount |-> Missing]

\* The swapTransaction of the swap response to the request of r, built from
\* the quoteResponse the request carried.
SwapTransaction(r, bytes) == [req |-> r.id, quote |-> r.buildQuote, bytes |-> bytes]

\* The signature of a signed transaction, as sendRawTransaction returns it.
SignatureOf(signed) == [signed |-> signed]

\* The base-58 text of a signature.
SignatureText(signature) ==
    IF signature = NoSignature THEN Unset
    ELSE "5VERv8NMvzbJMEkV8xnrLkEaWRtSz9CosKDYjCJjBRnbJLgp8uirBgmQpjKhoR4tjF3ZpRzrFmBV6UjKdiSZkQUW"

\* `slippageBps || 50`: the default replaces every falsy value, 0 included.
orDefault(slippage) ==
    IF ~slippage.given \/ slippage.bps = 0 THEN DEFAULT_SLIPPAGE_BPS ELSE slippage.bps

\* `slippageBps: number = 50`: the default replaces undefined only.
defaultParameter(slippage) ==
    IF ~slippage.given THEN DEFAULT_SLIPPAGE_BPS ELSE slippage.bps

\* The slippageBps parameter of a quote request: absent, or a decimal string.
Unsent == [present |-> FALSE, value |-> <<>>]
Sent(n) == [present |-> TRUE, value |-> NatToString(n)]

\* What a remote call settled to, as the invocation heard it.
Heard(outcome, body, simulationError, bytes, err) ==
    [outcome |-> outcome, body |-> body, simulationError |-> simulationError,
     bytes |-> bytes, err |-> err]

\* A query parameter the request does not carry.
Absent == "<absent>"

\* The route parameters of a quote request.
NoRoute == [restrictIntermediateTokens |-> Unset, onlyDirectRoutes |-> Unset]

\* `x === true`.
StrictlyTrue(flag) == flag.given /\ flag.on

\* A boolean parameter with the default false: `onlyDirectRoutes: boolean = false`.
DefaultFalse(flag) == IF flag.given THEN flag.on ELSE FALSE

\* V1ApiClient.getQuote: restrictIntermediateTokens is "false" only for the
\* parameter false; onlyDirectRoutes is never a parameter of the request.
V1QuoteRoute(restrictIntermediateTokens) ==
    [restrictIntermediateTokens |->
        IF restrictIntermediateTokens.given /\ ~restrictIntermediateTokens.on
        THEN "false" ELSE "true",
     onlyDirectRoutes |-> Absent]

JupiterQuoteRoute_RestrictOnlyWhenFalse(onlyDirectRoutes) ==
    IF StrictlyTrue(onlyDirectRoutes)
    THEN [restrictIntermediateTokens |-> Absent, onlyDirectRoutes |-> "true"]
    ELSE [restrictIntermediateTokens |-> IF onlyDirectRoutes.given THEN "true" ELSE Absent,
          onlyDirectRoutes |-> Absent]

\* JupiterService.getQuote: onlyDirectRoutes=true for the parameter true,
\* restrictIntermediateTokens=true otherwise.
JupiterQuoteRoute(onlyDirectRoutes) ==
    IF StrictlyTrue(onlyDirectRoutes)
    THEN [restrictIntermediateTokens |-> Absent, onlyDirectRoutes |-> "true"]
    ELSE [restrictIntermediateTokens |-> "true", onlyDirectRoutes |-> Absent]

\* getQuoteHandler: onlyDirectRoutes as given, if given.
HandlerQuoteRoute(onlyDirectRoutes) ==
    [restrictIntermediateTokens |-> Absent,
     onlyDirectRoutes |-> IF ~onlyDirectRoutes.given THEN Absent
                          ELSE IF onlyDirectRoutes.on THEN "true" ELSE "false"]

routeParameters_SwapIgnoresFlag(r) ==
    CASE r.op = "getV1QuoteHandler" -> V1QuoteRoute(Flag(~StrictlyTrue(r.onlyDirectRoutes)))
      [] r.op \in {"executeV1SwapHandler", "V1ApiClient.completeSwap"} ->
           V1QuoteRoute(Flag(TRUE))
      [] r.op = "JupiterService.completeSwap" -> JupiterQuoteRoute(r.onlyDirectRoutes)
      [] OTHER -> HandlerQuoteRoute(r.onlyDirectRoutes)

\* The route parameters the quote request of r carries: getV1QuoteHandler
\* passes `onlyDirectRoutes !== true` and V1ApiClient.completeSwap
\* `!onlyDirectRoutes` as restrictIntermediateTokens.
routeParameters(r) ==
    CASE r.op = "getV1QuoteHandler" -> V1QuoteRoute(Flag(~StrictlyTrue(r.onlyDirectRoutes)))
      [] r.op \in {"executeV1SwapHandler", "V1ApiClient.completeSwap"} ->
           V1QuoteRoute(Flag(~DefaultFalse(r.onlyDirectRoutes)))
      [] r.op = "JupiterService.completeSwap" -> JupiterQuoteRoute(r.onlyDirectRoutes)
      [] OTHER -> HandlerQuoteRoute(r.onlyDirectRoutes)

\* The JSON body of a POST request: the keys it has, and the priority-fee
\* policy under prioritizationFeeLamports.
NoPost ==
    [sent |-> FALSE, endpoint |-> Unset, body |-> {}, prioritizationFeeLamports |-> NoPolicy]

Post(endpoint, body, policy) ==
    [sent |-> TRUE, endpoint |-> endpoint,
     body |-> body \cup (IF policy.given THEN {"prioritizationFeeLamports"} ELSE {}),
     prioritizationFeeLamports |-> policy]

prioritizationFeeLamports_OnlyIfGiven(priorityFee) == priorityFee

\* JupiterService.executeSwap: the caller's priorityFee if there is one, the
\* default policy otherwise.
prioritizationFeeLamports(priorityFee) ==
    IF priorityFee.given THEN priorityFee ELSE DEFAULT_PRIORITY_FEE

\* The body executeSwap posts to /swap; V1ApiClient.executeSwap has no
\* priorityFee parameter and always writes the default policy.
swapRequest(op, priorityFee) ==
    Post("/swap",
         {"quoteResponse", "userPublicKey", "dynamicComputeUnitLimit", "dynamicSlippage"},
         IF op \in {"executeV1SwapHandler", "V1ApiClient.completeSwap",
                    "V1ApiClient.executeSwap"}
         THEN DEFAULT_PRIORITY_FEE
         ELSE prioritizationFeeLamports(priorityFee))

\* JSON.parse(text): the value, or a throw.
QUOTE_JSON == "{\"outAmount\":\"1000\"}"
SWAP_JSON == "{\"swapTransaction\":\"AQID\"}"
JSONparse(text) ==
    IF text \in {"not json", "", "<undefined>"} THEN [threw |-> TRUE, value |-> "<undefined>"]
    ELSE IF text = "null" THEN [threw |-> FALSE, value |-> Null]
    ELSE [threw |-> FALSE, value |-> text]

\* The truthiness of a string or an object.
Truthy(v) == v \notin {"<undefined>", Null, ""}

\* A logger call made by the invocation.
Log(r, level, text) == [r EXCEPT !.logged = Append(@, Line(level, text))]

Idle ==
    [op |-> "none", id |-> 0, inputMint |-> "", outputMint |-> "", amount |-> <<>>,
     slippage |-> Undefined,
     pc |-> "idle", steps |-> <<>>, walletReady |-> FALSE, quoteAmount |-> <<Unset>>,
     slippageSent |-> Unsent, quote |-> NoQuote, buildQuote |-> NoQuote,
     swapTransaction |-> NoTransaction, signedTx |-> NoSigned,
     signature |-> NoSignature, confirmedSig |-> NoSignature,
     simErr |-> Unset, confirm |-> Unset, confirmErr |-> Null, heard |-> <<>>,
     swapResult |-> NoSwapResult, result |-> "none", msg |-> <<>>,
     onlyDirectRoutes |-> NoFlag, routeSent |-> NoRoute, priorityFee |-> NoPolicy,
     userPublicKey |-> Missing, quoteResponse |-> Missing,
     swapTransactionInput |-> Missing, serializedTransaction |-> Missing,
     posted |-> NoPost, thrown |-> FALSE, logged |-> <<>>, commitment |-> Unset,
     tool |-> ""]

Begin(op, id, inputMint, outputMint, amount, slippage, w) ==
    [Idle EXCEPT !.op = op, !.id = id, !.inputMint = inputMint, !.outputMint = outputMint,
                 !.amount = amount, !.slippage = slippage,
                 !.walletReady = isInitialized(w)]

\* The onlyDirectRoutes option of the input.
WithRoutes(r, onlyDirectRoutes) == [r EXCEPT !.onlyDirectRoutes = onlyDirectRoutes]

\* The input of a lone POST operation.
BeginPost(op, id, w) == Begin(op, id, "", "", <<>>, Undefined, w)

\* createErrorResponse(message): isError is true.
createErrorResponse(r, message) ==
    [r EXCEPT !.pc = "done", !.result = "error", !.msg = message]

\* createSuccessResponse(message): isError is false.
createSuccessResponse(r, message) ==
    [r EXCEPT !.pc = "done", !.result = "ok", !.msg = message]

\* An Error e thrown inside the operation: the catch block of the service
\* method logs and rethrows it, the catch block of a handler turns it into an
\* error response.
Throw_Rethrows(r, e) ==
    [Log(r, "error", <<"Failed to complete swap:">> \o e)
        EXCEPT !.pc = "done", !.result = "error", !.msg = e, !.thrown = TRUE]

Throw(r, e) ==
    CASE r.op = "executeV1SwapHandler" ->
           createErrorResponse(
               Log(Log(r, "error", <<"Failed to complete V1 API swap:">> \o e),
                   "debug", <<"Error in executeV1SwapHandler:">> \o e),
               <<"Error executing V1 API swap: ">> \o e)
      [] r.op = "getV1QuoteHandler" ->
           createErrorResponse(
               Log(Log(r, "error", <<"Error fetching V1 API quote:">> \o e),
                   "debug", <<"Error in getV1QuoteHandler:">> \o e),
               <<"Error getting V1 API quote: ">> \o e)
      [] r.op = "getQuoteHandler" ->
           createErrorResponse(r, <<"Error getting quote: ">> \o e)
      [] r.op = "buildSwapTransactionHandler" ->
           createErrorResponse(r, <<"Error building swap transaction: ">> \o e)
      [] r.op = "sendSwapTransactionHandler" ->
           createErrorResponse(r, <<"Error sending swap transaction: ">> \o e)
      [] OTHER ->
           [Log(r, "error", <<"Failed to complete swap:">> \o e)
               EXCEPT !.pc = "done", !.result = "error", !.msg = e, !.thrown = TRUE]

\* The quote request goes out (fetch): the operation is suspended on it.
fetchQuote(r, amountString, slippageSent) ==
    [(IF r.op = "getQuoteHandler" THEN r
      ELSE Log(r, "debug", <<"Getting quote with params: ", r.inputMint, r.outputMint>>
                           \o amountString))
        EXCEPT !.pc = "quote", !.steps = Append(@, "quote"), !.quoteAmount = amountString,
               !.slippageSent = slippageSent, !.routeSent = routeParameters(r)]

\* executeSwap as a step of completeSwap: the quote is posted to /swap.
executeSwap(r, quoteResponse, priorityFee) ==
    [r EXCEPT !.pc = "build", !.steps = Append(@, "build"), !.buildQuote = quoteResponse,
              !.posted = swapRequest(r.op, priorityFee)]

\* validatePublicKey on both mints: the error response of the first that
\* fails, or <<>>.
validateMints(inputMint, outputMint) ==
    IF createPublicKey(inputMint).error # <<>> THEN createPublicKey(inputMint).error
    ELSE createPublicKey(outputMint).error

V1completeSwap_NoWalletCheck(r, w, amount, slippageBps) ==
    fetchQuote(r, numberToString(amount), Sent(slippageBps))

\* V1ApiClient.completeSwap up to its first await.
V1completeSwap(r, w, amount, slippageBps) ==
    IF ~isInitialized(w) THEN Throw(r, <<WALLET_NOT_INITIALIZED>>)
    ELSE fetchQuote(r, numberToString(amount), Sent(slippageBps))

executeV1SwapHandler_MintsFirst(r, w) ==
    IF validateMints(r.inputMint, r.outputMint) # <<>>
    THEN createErrorResponse(r, validateMints(r.inputMint, r.outputMint))
    ELSE IF ~isInitialized(w)
    THEN createErrorResponse(r, <<WALLET_NOT_INITIALIZED,
             " Please check your environment variables for SOLANA_PRIVATE_KEY.">>)
    ELSE IF isNaN(parseInt(r.amount))
    THEN createErrorResponse(r, <<INVALID_AMOUNT>>)
    ELSE V1completeSwap(r, w, parseInt(r.amount), orDefault(r.slippage))

\* executeV1SwapHandler up to its first await.
executeV1SwapHandler(r, w) ==
    IF ~isInitialized(w)
    THEN createErrorResponse(r, <<WALLET_NOT_INITIALIZED,
             " Please check your environment variables for SOLANA_PRIVATE_KEY.">>)
    ELSE IF validateMints(r.inputMint, r.outputMint) # <<>>
    THEN createErrorResponse(r, validateMints(r.inputMint, r.outputMint))
    ELSE IF isNaN(parseInt(r.amount))
    THEN createErrorResponse(r, <<INVALID_AMOUNT>>)
    ELSE V1completeSwap(r, w, parseInt(r.amount), orDefault(r.slippage))

\* JupiterService.completeSwap up to its first await.
JupiterCompleteSwap(r, w) ==
    IF ~isInitialized(w) THEN Throw(r, <<WALLET_NOT_INITIALIZED>>)
    ELSE IF isNaN(parseInt(r.amount)) THEN Throw(r, <<INVALID_AMOUNT>>)
    ELSE fetchQuote(r, numberToString(parseInt(r.amount)), Sent(orDefault(r.slippage)))

getV1QuoteHandler_NeedsWallet(r) ==
    IF ~r.walletReady
    THEN createErrorResponse(r, <<WALLET_NOT_INITIALIZED>>)
    ELSE IF validateMints(r.inputMint, r.outputMint) # <<>>
    THEN createErrorResponse(r, validateMints(r.inputMint, r.outputMint))
    ELSE IF isNaN(parseInt(r.amount))
    THEN createErrorResponse(r, <<INVALID_AMOUNT>>)
    ELSE fetchQuote(r, numberToString(parseInt(r.amount)), Sent(orDefault(r.slippage)))

\* getV1QuoteHandler up to its first await.
getV1QuoteHandler(r) ==
    IF validateMints(r.inputMint, r.outputMint) # <<>>
    THEN createErrorResponse(r, validateMints(r.inputMint, r.outputMint))
    ELSE IF isNaN(parseInt(r.amount))
    THEN createErrorResponse(r, <<INVALID_AMOUNT>>)
    ELSE fetchQuote(r, numberToString(parseInt(r.amount)), Sent(orDefault(r.slippage)))

\* getQuoteHandler up to its first await: the amount is sent as given, and
\* slippageBps only if the caller gave it.
getQuoteHandler(r) ==
    IF validateMints(r.inputMint, r.outputMint) # <<>>
    THEN createErrorResponse(r, validateMints(r.inputMint, r.outputMint))
    ELSE fetchQuote(r, r.amount,
                    IF r.slippage.given THEN Sent(r.slippage.bps) ELSE Unsent)

\* The simulationError test of the pipeline: `!== null` in V1ApiClient, the
\* truthiness of the string in JupiterService.
simulationErrorPresent(op, simulationError) ==
    IF op = "JupiterService.completeSwap"
    THEN simulationError \notin {Null, ""}
    ELSE simulationError # Null

\* What a fetch can settle to: an OK response with a JSON body, an OK response
\* whose body is not JSON, a non-OK status, a rejection.
FetchOutcomes == {"ok", "badjson", "http", "reject"}

afterQuote_IgnoreStatus(r, outcome, body, w) ==
    LET r0 == [r EXCEPT !.heard = Append(@, Heard(outcome, body, Unset, Unset, Null))] IN
    IF outcome = "badjson" THEN Throw(r0, JSON_FAILED)
    ELSE IF outcome = "reject" THEN Throw(r0, FETCH_FAILED)
    ELSE LET r1 == [r0 EXCEPT !.quote = QuoteData(r, body)] IN
         IF r.op = "getQuoteHandler"
         THEN createSuccessResponse(r1, <<"Quote: ", r1.quote.outAmount>>)
         ELSE IF r.op = "getV1QuoteHandler"
         THEN createSuccessResponse(r1, <<"V1 API Quote Summary:", "Output Amount: ",
                                          r1.quote.outAmount>>)
         ELSE IF publicKey(w).threw THEN Throw(r1, publicKey(w).value)
         ELSE executeSwap(r1, r1.quote, NoPolicy)

\* The continuation after the quote fetch settles: getQuote returns the body
\* of an OK response as it is, and a swap hands it to executeSwap.
afterQuote(r, outcome, body, w) ==
    LET r0 == [r EXCEPT !.heard = Append(@, Heard(outcome, body, Unset, Unset, Null))] IN
    IF outcome = "badjson" THEN Throw(r0, JSON_FAILED)
    ELSE IF r.op = "getQuoteHandler" THEN
        CASE outcome = "reject" -> Throw(r0, FETCH_FAILED)
          [] outcome = "http" ->
               createErrorResponse(r0, <<"Error getting quote: ", "500 Internal Server Error">>)
          [] OTHER -> createSuccessResponse([r0 EXCEPT !.quote = QuoteData(r, body)],
                                            <<"Quote: ", QuoteData(r, body).outAmount>>)
    ELSE IF outcome = "reject" THEN Throw(r0, FETCH_FAILED)
    ELSE IF outcome = "http" THEN Throw(r0, <<"HTTP error! status: ", "500">>)
    ELSE LET r1 == [r0 EXCEPT !.quote = QuoteData(r, body)] IN
         IF r.op = "getV1QuoteHandler"
         THEN createSuccessResponse(r1, <<"V1 API Quote Summary:", "Output Amount: ",
                                          r1.quote.outAmount>>)
         ELSE IF publicKey(w).threw THEN Throw(r1, publicKey(w).value)
         ELSE executeSwap([r1 EXCEPT !.userPublicKey = publicKeyString(w)], r1.quote,
                          NoPolicy)

\* The continuation after the swap (build) fetch settles, down to the call of
\* sendRawTransaction.
afterBuild(r, outcome, simulationError, bytes, cfg) ==
    LET r0 == [r EXCEPT !.heard = Append(@, Heard(outcome, Unset, simulationError, bytes, Null))] IN
    IF outcome = "badjson" THEN Throw(r0, JSON_FAILED)
    ELSE IF outcome = "reject" THEN Throw(r0, FETCH_FAILED)
    ELSE IF outcome = "http" THEN Throw(r0, <<"HTTP error! status: ", "500">>)
    ELSE LET r1 == [r0 EXCEPT !.simErr = simulationError,
                              !.swapTransaction = SwapTransaction(r, bytes)] IN
         IF simulationErrorPresent(r.op, simulationError)
         THEN Throw(r1, <<"Simulation error: ", simulationError>>)
         ELSE IF bytes = "garbage" THEN Throw(r1, DESERIALIZE_FAILED)
         ELSE IF ~DecodesToKeypair(cfg.privateKey) THEN Throw(r1, <<"Non-base58 character">>)
         ELSE LET r2 == [r1 EXCEPT !.steps = Append(@, "sign"),
                                   !.signedTx = Sign(r1.swapTransaction, cfg.privateKey)] IN
              IF ~ConnectionConstructs(cfg.rpcEndpoint)
              THEN Throw(r2, <<"Endpoint URL must start with http: or https:.">>)
              ELSE [r2 EXCEPT !.pc = "submit", !.steps = Append(@, "submit")]

afterSubmit_Retry(r, outcome) ==
    LET r0 == [r EXCEPT !.heard = Append(@, Heard(outcome, Unset, Unset, Unset, Null))] IN
    IF outcome = "throw"
    THEN [r0 EXCEPT !.pc = "submit", !.steps = Append(@, "submit")]
    ELSE [r0 EXCEPT !.pc = "confirm", !.steps = Append(@, "confirm"),
                    !.signature = SignatureOf(r.signedTx),
                    !.confirmedSig = SignatureOf(r.signedTx)]

afterSubmit_ConfirmAnyway(r, outcome) ==
    LET r0 == [r EXCEPT !.heard = Append(@, Heard(outcome, Unset, Unset, Unset, Null))] IN
    [r0 EXCEPT !.pc = "confirm", !.steps = Append(@, "confirm"),
               !.signature = SignatureOf(r.signedTx),
               !.confirmedSig = SignatureOf(r.signedTx)]

\* The commitment level completeSwap passes to confirmTransaction, and the
\* confirmationStatus it writes into its result.
CONFIRM_COMMITMENT == "processed"
REPORTED_STATUS == "confirmed"

\* The continuation after sendRawTransaction settles: the signature it
\* returned is handed to confirmTransaction, to wait for CONFIRM_COMMITMENT.
afterSubmit(r, outcome) ==
    LET r0 == [r EXCEPT !.heard = Append(@, Heard(outcome, Unset, Unset, Unset, Null))] IN
    IF outcome = "throw" THEN Throw(r0, SEND_FAILED)
    ELSE [r0 EXCEPT !.pc = "confirm", !.steps = Append(@, "confirm"),
                    !.signature = SignatureOf(r.signedTx),
                    !.confirmedSig = SignatureOf(r.signedTx),
                    !.commitment = CONFIRM_COMMITMENT]

\* The object completeSwap returns.
SwapResult(r) ==
    [signature |-> r.signature, confirmationStatus |-> REPORTED_STATUS,
     outAmount |-> r.quote.outAmount]

\* The return of completeSwap, and what executeV1SwapHandler makes of it.
returnSwapResult(r) ==
    LET r1 == Log(r, "debug", <<"Transaction successful: ", SignatureText(r.signature)>>) IN
    IF r.op = "executeV1SwapHandler"
    THEN createSuccessResponse([r1 EXCEPT !.swapResult = SwapResult(r)],
                               <<"Swap executed successfully using Jupiter V1 API!",
                                 "Transaction signature: ", SignatureText(r.signature),
                                 "confirmed">>)
    ELSE [r1 EXCEPT !.pc = "done", !.result = "ok", !.msg = <<"confirmed">>,
                    !.swapResult = SwapResult(r)]

afterConfirm_TimeoutAsFailure(r, outcome, err) ==
    LET r1 == [r EXCEPT !.confirm = outcome,
                        !.confirmErr = IF outcome = "err" THEN err ELSE Null,
                        !.heard = Append(@, Heard(outcome, Unset, Unset, Unset, err))] IN
    IF outcome \in {"timeout", "err"}
    THEN Throw(r1, <<"Transaction failed: ", JSONstringify(err)>>)
    ELSE returnSwapResult(r1)

afterConfirm_IgnoreErr(r, outcome, err) ==
    LET r1 == [r EXCEPT !.confirm = outcome,
                        !.confirmErr = IF outcome = "err" THEN err ELSE Null,
                        !.heard = Append(@, Heard(outcome, Unset, Unset, Unset, err))] IN
    IF outcome = "timeout" THEN Throw(r1, CONFIRM_TIMED_OUT)
    ELSE returnSwapResult(r1)

afterConfirm_NoPayload(r, outcome, err) ==
    LET r1 == [r EXCEPT !.confirm = outcome,
                        !.confirmErr = IF outcome = "err" THEN err ELSE Null,
                        !.heard = Append(@, Heard(outcome, Unset, Unset, Unset, err))] IN
    IF outcome = "timeout" THEN Throw(r1, CONFIRM_TIMED_OUT)
    ELSE IF outcome = "err"
    THEN Throw(r1, <<"Transaction failed: ", "[object Object]">>)
    ELSE returnSwapResult(r1)

\* The continuation after confirmTransaction settles: outcome is "ok" (value.err
\* is null), "err" (the network reports the execution error err) or "timeout"
\* (the call throws, the transaction not confirmed in time).
afterConfirm(r, outcome, err) ==
    LET r1 == [r EXCEPT !.confirm = outcome,
                        !.confirmErr = IF outcome = "err" THEN err ELSE Null,
                        !.heard = Append(@, Heard(outcome, Unset, Unset, Unset, err))] IN
    IF outcome = "timeout" THEN Throw(r1, CONFIRM_TIMED_OUT)
    ELSE IF outcome = "err"
    THEN Throw(r1, <<"Transaction failed: ", JSONstringify(err)>>)
    ELSE returnSwapResult(r1)

\* The request goes out (fetch): the operation is suspended on it.
post(r, request) == [r EXCEPT !.pc = "post", !.posted = request]

\* JupiterService.executeSwap and V1ApiClient.executeSwap called on their own,
\* up to the fetch.
executeSwapAlone(r) ==
    post(Log(r, "debug",
             IF r.op = "V1ApiClient.executeSwap"
             THEN <<"Building V1 API swap transaction">>
             ELSE <<"Building swap transaction">>),
         swapRequest(r.op, r.priorityFee))

buildSwapTransactionHandler_ParsesFirst(r) ==
    IF JSONparse(r.quoteResponse).threw
    THEN createErrorResponse(r, <<"Invalid quote response: ", "Unexpected token">>)
    ELSE IF createPublicKey(r.userPublicKey).error # <<>>
    THEN createErrorResponse(r, createPublicKey(r.userPublicKey).error)
    ELSE post(r, Post("/swap-instructions", {"quoteResponse", "userPublicKey"},
                      r.priorityFee))

\* buildSwapTransactionHandler up to its fetch: the public key is validated,
\* then the quote response parsed.
buildSwapTransactionHandler(r) ==
    IF createPublicKey(r.userPublicKey).error # <<>>
    THEN createErrorResponse(r, createPublicKey(r.userPublicKey).error)
    ELSE IF JSONparse(r.quoteResponse).threw
    THEN createErrorResponse(r, <<"Invalid quote response: ", "Unexpected token">>)
    ELSE post(r, Post("/swap-instructions", {"quoteResponse", "userPublicKey"},
                      r.priorityFee))

neitherProvided_Never(swapTransaction, serializedTransaction) == FALSE

\* `!requestBody.swapTransaction && !requestBody.serializedTransaction`.
neitherProvided(swapTransaction, serializedTransaction) ==
    ~Truthy(swapTransaction) /\ ~Truthy(serializedTransaction)

\* sendSwapTransactionHandler up to its fetch.
sendSwapTransactionHandler(r) ==
    LET given == Truthy(r.swapTransactionInput)
        parsed == JSONparse(r.swapTransactionInput)
        serialized == IF Truthy(r.serializedTransaction)
                      THEN r.serializedTransaction ELSE "<undefined>"
    IN  IF given /\ parsed.threw
        THEN createErrorResponse(r, <<"Invalid swap transaction: ", "Unexpected token">>)
        ELSE IF neitherProvided(IF given THEN parsed.value ELSE "<undefined>", serialized)
        THEN createErrorResponse(r,
                 <<"Either swapTransaction or serializedTransaction must be provided">>)
        ELSE post(r, Post("/swap",
                          (IF given THEN {"swapTransaction"} ELSE {})
                          \cup (IF Truthy(serialized) THEN {"serializedTransaction"} ELSE {}),
                          NoPolicy))

\* The continuation after the POST settles.
afterPost(r, outcome) ==
    LET r0 == [r EXCEPT !.heard = Append(@, Heard(outcome, Unset, Unset, Unset, Null))] IN
    IF outcome = "reject" THEN Throw(r0, FETCH_FAILED)
    ELSE IF outcome = "badjson" THEN Throw(r0, JSON_FAILED)
    ELSE IF r.op = "buildSwapTransactionHandler" THEN
        IF outcome = "http"
        THEN createErrorResponse(r0, <<"Error building swap transaction: ",
                                       "500 Internal Server Error">>)
        ELSE createSuccessResponse(r0, <<"Swap transaction: ", SWAP_JSON>>)
    ELSE IF r.op = "sendSwapTransactionHandler" THEN
        IF outcome = "http"
        THEN createErrorResponse(r0, <<"Error sending swap transaction: ",
                                       "500 Internal Server Error">>)
        ELSE createSuccessResponse(r0, <<"Swap result: ", "{\"txid\":\"5VERv8\"}">>)
    ELSE IF outcome = "http" THEN Throw(r0, <<"HTTP error! status: ", "500">>)
    ELSE [Log(r0, "debug", <<"Swap transaction built successfully">>)
             EXCEPT !.pc = "done", !.result = "ok", !.msg = <<SWAP_JSON>>]

resume_KeepsSigned(invs, i, r) ==
    [invs EXCEPT ![i] = IF r.pc = "idle" THEN [r EXCEPT !.signedTx = invs[i].signedTx] ELSE r]

resume_SharedQuote(invs, i, r) ==
    [j \in DOMAIN invs |->
        IF j = i THEN r
        ELSE IF invs[j].pc \in {"build", "submit", "confirm"} /\ r.quote # NoQuote
        THEN [invs[j] EXCEPT !.quote = r.quote]
        ELSE invs[j]]

\* The locals of an async function live in the frame of its own call: the
\* continuation of invocation i writes the frame of i and no other.
resume(invs, i, r) == [invs EXCEPT ![i] = r]

(***************************************************************************)
(* JupiterService: the token list and its cache                            *)
(***************************************************************************)
\* Cache duration (1 hour), in milliseconds.
CACHE_DURATION == 60 * 60 * 1000

\* The step of the clock: half the cache duration.  Date.now() is counted
\* from the start of the process.
TICK == CACHE_DURATION \div 2

\* The token list held: empty, or the list the remote side sent at fetchedAt.
NoTokenList == [loaded |-> FALSE, fetchedAt |-> 0]
TokenList(fetchedAt) == [loaded |-> TRUE, fetchedAt |-> fetchedAt]

\* The fields of the service at construction.
NewJupiterService ==
    [tokenList |-> NoTokenList, isTokenListInitialized |-> FALSE,
     lastTokenListFetchTime |-> 0]

TokenOps == {"loadTokenList", "searchTokens", "getTokenByMint"}

\* A call of a token operation: the time it began, whether it fetched the
\* list, and the list it answered from and when.
NoLookup ==
    [op |-> "none", pc |-> "idle", startedAt |-> 0, fetched |-> FALSE, threw |-> FALSE,
     answered |-> FALSE, from |-> NoTokenList, at |-> 0]

\* loadTokenList's test: loaded within the last hour, don't reload.
cacheIsFresh(s, t) ==
    s.isTokenListInitialized /\ t - s.lastTokenListFetchTime < CACHE_DURATION

\* searchTokens and getTokenByMint call loadTokenList only while the list was
\* never loaded.
callsLoadTokenList(op, s) == op = "loadTokenList" \/ ~s.isTokenListInitialized

\* The filter over this.tokenList (searchTokens) or the find in it
\* (getTokenByMint): the answer is drawn from the list held at time t.
answerFromList(r, s, t) ==
    IF r.op = "loadTokenList" THEN [r EXCEPT !.pc = "done"]
    ELSE [r EXCEPT !.pc = "done", !.answered = TRUE, !.from = s.tokenList, !.at = t]

\* A token operation up to its first await.
startLookup(op, s, t) ==
    LET r == [NoLookup EXCEPT !.op = op, !.startedAt = t] IN
    IF callsLoadTokenList(op, s) /\ ~cacheIsFresh(s, t)
    THEN [r EXCEPT !.pc = "fetch", !.fetched = TRUE]
    ELSE answerFromList(r, s, t)

\* loadTokenList after its fetch, at time t: the list is stored, with `now`,
\* the time the load began; a failed fetch is logged and rethrown.
storeTokenList(s, r, outcome, t) ==
    IF outcome = "ok"
    THEN [tokenList |-> TokenList(t), isTokenListInitialized |-> TRUE,
          lastTokenListFetchTime |-> r.startedAt]
    ELSE s

\* The continuation of the operation after the fetch of the list settles.
afterTokenList(s, r, outcome, t) ==
    IF outcome = "ok" THEN answerFromList(r, storeTokenList(s, r, outcome, t), t)
    ELSE [r EXCEPT !.pc = "done", !.threw = TRUE]

(***************************************************************************)
(* The state machine                                                       *)
(***************************************************************************)
NoSign ==
    [called |-> FALSE, threw |-> FALSE, value |-> <<>>, transaction |-> "", previous |-> <<>>,
     logged |-> <<>>]
NoSend ==
    [called |-> FALSE, threw |-> FALSE, value |-> <<>>, logged |-> <<>>,
     options |-> [skipPreflight |-> NoFlag, maxRetries |-> NoRetries],
     broadcast |-> NoBroadcast]

\* The process starts with the RPC endpoint given, the network left to its
\* default and LOG_LEVEL=debug, the level at which every logger call is written.
Init ==
    /\ env \in {e \in Envs : /\ e.SOLANA_NETWORK = NotSet
                              /\ e.SOLANA_RPC_ENDPOINT # NotSet
                              /\ e.LOG_LEVEL = "debug"}
    /\ log = <<>>
    /\ phase = "start"
    /\ config = NoConfig
    /\ wallet = NoKeypair
    /\ initResult = "none"
    /\ initCalls = 0
    /\ calls = 0
    /\ ledger = {}
    /\ inv = [i \in Slots |-> Idle]
    /\ lastSign = NoSign
    /\ lastSend = NoSend
    /\ now = 0
    /\ jupiterService = NewJupiterService
    /\ lookup = NoLookup

\* The module body of config.ts: the configuration is read from the
\* environment.
LoadConfig ==
    /\ phase = "start"
    /\ config' = loadConfig(env)
    /\ log' = log \o logger(env, configLogs(env, loadConfig(env)))
    /\ phase' = "loading"
    /\ UNCHANGED <<env, wallet, initResult, initCalls, calls, ledger, inv, lastSign, lastSend, now, jupiterService, lookup>>

\* Process start: the wallet is initialized before the server takes requests.
Boot ==
    /\ phase = "loading"
    /\ LET res == initialize(config, wallet) IN
         /\ wallet' = res.wallet
         /\ initResult' = IF res.threw THEN "threw"
                          ELSE IF res.returned THEN "true" ELSE "false"
         /\ log' = log \o logger(env, initializeLogs(config)
                                        \o indexLogs(config, res.wallet, res.returned))
    /\ initCalls' = initCalls + 1
    /\ phase' = "initialized"
    /\ UNCHANGED <<env, config, calls, ledger, inv, lastSign, lastSend, now, jupiterService, lookup>>

Connect_BeforeInitialize ==
    /\ phase = "loading"
    /\ phase' = "serving"
    /\ log' = log \o logger(env, startedLogs(config))
    /\ UNCHANGED <<env, config, wallet, initResult, initCalls, calls, ledger, inv, lastSign,
                   lastSend, now, jupiterService, lookup>>

\* index, after walletService.initialize() has returned: the server connects
\* to its transport and the request handlers are registered; requests are
\* handled from here on.
Connect ==
    /\ phase = "initialized"
    /\ phase' = "serving"
    /\ log' = log \o logger(env, startedLogs(config))
    /\ UNCHANGED <<env, config, wallet, initResult, initCalls, calls, ledger, inv, lastSign,
                   lastSend, now, jupiterService, lookup>>

\* A caller of the wallet service signs a transaction.
SignTransaction ==
    /\ phase = "serving"
    /\ \E transaction \in {"tx", "unsignable"} :
         LET res == signTransaction(wallet, transaction) IN
           /\ lastSign' = [called |-> TRUE, threw |-> res.threw, value |-> res.value,
                           transaction |-> transaction,
                           previous |-> IF /\ lastSign.called /\ ~lastSign.threw /\ ~res.threw
                                           /\ lastSign.transaction = transaction
                                        THEN lastSign.value ELSE <<>>,
                           logged |-> res.logged]
           /\ wallet' = res.wallet
    /\ UNCHANGED <<env, log, phase, config, initResult, initCalls, calls, ledger, inv, lastSend, now, jupiterService, lookup>>

\* A caller of the wallet service sends a serialized transaction over the
\* wallet's connection.
SendTransactionWith(options) ==
    /\ phase = "serving"
    /\ \E outcome \in {"ok", "throw"} :
         LET res == sendTransaction(wallet, "tx", options, outcome) IN
           /\ lastSend' = [called |-> TRUE, threw |-> res.threw, value |-> res.value,
                           logged |-> res.logged, options |-> options,
                           broadcast |-> res.broadcast]
           /\ wallet' = res.wallet
    /\ UNCHANGED <<env, log, phase, config, initResult, initCalls, calls, ledger, inv, lastSign, now, jupiterService, lookup>>

\* sendTransaction called with any options.
SendTransaction == \E options \in SendOptions : SendTransactionWith(options)

\* sendTransaction called with its options left out, as a caller that serves
\* tool requests beside it does.
SendTransactionNoOptions ==
    SendTransactionWith([skipPreflight |-> NoFlag, maxRetries |-> NoRetries])

\* What the swaps have handed to the cluster: a step that calls sendRawTransaction hands
\* the signed transaction of the frame to the RPC node.
sendRawTransaction(sent, old, new) ==
    IF Len(new.steps) > Len(old.steps) /\ new.steps[Len(new.steps)] = "submit"
    THEN sent \cup {[by |-> new.id, signed |-> new.signedTx]}
    ELSE sent

StartExecuteV1SwapHandler(i) ==
    /\ phase = "serving" /\ inv[i].pc = "idle" /\ calls < MaxCalls
    /\ \E im \in InputMints, om \in OutputMints, am \in AmountStrings, opt \in Options :
         LET sl == opt.slippage
             odr == opt.onlyDirectRoutes
         IN inv' = resume(inv, i,
                   executeV1SwapHandler(
                      WithRoutes(Begin("executeV1SwapHandler", calls + 1, im, om, am, sl, wallet),
                                 odr),
                      wallet))
    /\ calls' = calls + 1
    /\ UNCHANGED <<env, log, phase, config, wallet, initResult, initCalls, ledger, lastSign, lastSend, now, jupiterService, lookup>>

StartV1CompleteSwap(i) ==
    /\ phase = "serving" /\ inv[i].pc = "idle" /\ calls < MaxCalls
    /\ \E im \in InputMints, om \in OutputMints, am \in {Number(12)}, opt \in Options :
         LET sl == opt.slippage
             odr == opt.onlyDirectRoutes
         IN inv' = resume(inv, i,
                   V1completeSwap(
                      WithRoutes(Begin("V1ApiClient.completeSwap", calls + 1, im, om,
                                       numberToString(am), sl, wallet),
                                 odr),
                      wallet, am, defaultParameter(sl)))
    /\ calls' = calls + 1
    /\ UNCHANGED <<env, log, phase, config, wallet, initResult, initCalls, ledger, lastSign, lastSend, now, jupiterService, lookup>>

StartJupiterCompleteSwap(i) ==
    /\ phase = "serving" /\ inv[i].pc = "idle" /\ calls < MaxCalls
    /\ \E im \in InputMints, om \in OutputMints, am \in AmountStrings, opt \in Options :
         LET sl == opt.slippage
             odr == opt.onlyDirectRoutes
         IN inv' = resume(inv, i,
                   JupiterCompleteSwap(
                      WithRoutes(Begin("JupiterService.completeSwap", calls + 1, im, om, am, sl,
                                       wallet),
                                 odr),
                      wallet))
    /\ calls' = calls + 1
    /\ UNCHANGED <<env, log, phase, config, wallet, initResult, initCalls, ledger, lastSign, lastSend, now, jupiterService, lookup>>

StartGetV1QuoteHandler(i) ==
    /\ phase = "serving" /\ inv[i].pc = "idle" /\ calls < MaxCalls
    /\ \E im \in InputMints, om \in OutputMints, am \in AmountStrings, opt \in Options :
         LET sl == opt.slippage
             odr == opt.onlyDirectRoutes
         IN inv' = resume(inv, i,
                   getV1QuoteHandler(
                      WithRoutes(Begin("getV1QuoteHandler", calls + 1, im, om, am, sl, wallet),
                                 odr)))
    /\ calls' = calls + 1
    /\ UNCHANGED <<env, log, phase, config, wallet, initResult, initCalls, ledger, lastSign, lastSend, now, jupiterService, lookup>>

StartGetQuoteHandler(i) ==
    /\ phase = "serving" /\ inv[i].pc = "idle" /\ calls < MaxCalls
    /\ \E im \in InputMints, om \in OutputMints, am \in AmountStrings, opt \in Options :
         LET sl == opt.slippage
             odr == opt.onlyDirectRoutes
         IN inv' = resume(inv, i,
                   getQuoteHandler(
                      WithRoutes(Begin("getQuoteHandler", calls + 1, im, om, am, sl, wallet),
                                 odr)))
    /\ calls' = calls + 1
    /\ UNCHANGED <<env, log, phase, config, wallet, initResult, initCalls, ledger, lastSign, lastSend, now, jupiterService, lookup>>

StartJupiterExecuteSwap(i) ==
    /\ phase = "serving" /\ inv[i].pc = "idle" /\ calls < MaxCalls
    /\ \E pf \in {NoPolicy, CALLER_PRIORITY_FEE} :
         inv' = resume(inv, i,
                   executeSwapAlone(
                      [BeginPost("JupiterService.executeSwap", calls + 1, wallet)
                          EXCEPT !.priorityFee = pf, !.userPublicKey = SOL_MINT,
                                 !.quoteResponse = QUOTE_JSON]))
    /\ calls' = calls + 1
    /\ UNCHANGED <<env, log, phase, config, wallet, initResult, initCalls, ledger, lastSign, lastSend, now, jupiterService, lookup>>

StartV1ExecuteSwap(i) ==
    /\ phase = "serving" /\ inv[i].pc = "idle" /\ calls < MaxCalls
    /\ inv' = resume(inv, i,
                executeSwapAlone(
                   [BeginPost("V1ApiClient.executeSwap", calls + 1, wallet)
                       EXCEPT !.userPublicKey = SOL_MINT, !.quoteResponse = QUOTE_JSON]))
    /\ calls' = calls + 1
    /\ UNCHANGED <<env, log, phase, config, wallet, initResult, initCalls, ledger, lastSign, lastSend, now, jupiterService, lookup>>

StartBuildSwapTransactionHandler(i) ==
    /\ phase = "serving" /\ inv[i].pc = "idle" /\ calls < MaxCalls
    /\ \E upk \in {SOL_MINT, BAD_MINT, Missing}, qr \in {QUOTE_JSON, "not json"},
          pf \in {NoPolicy, CALLER_PRIORITY_FEE} :
         inv' = resume(inv, i,
                   buildSwapTransactionHandler(
                      [BeginPost("buildSwapTransactionHandler", calls + 1, wallet)
                          EXCEPT !.priorityFee = pf, !.userPublicKey = upk,
                                 !.quoteResponse = qr]))
    /\ calls' = calls + 1
    /\ UNCHANGED <<env, log, phase, config, wallet, initResult, initCalls, ledger, lastSign, lastSend, now, jupiterService, lookup>>

StartSendSwapTransactionHandler(i) ==
    /\ phase = "serving" /\ inv[i].pc = "idle" /\ calls < MaxCalls
    /\ \E st \in {Missing, "", SWAP_JSON, "null", "not json"}, ser \in {Missing, "", "AQID"} :
         inv' = resume(inv, i,
                   sendSwapTransactionHandler(
                      [BeginPost("sendSwapTransactionHandler", calls + 1, wallet)
                          EXCEPT !.swapTransactionInput = st, !.serializedTransaction = ser]))
    /\ calls' = calls + 1
    /\ UNCHANGED <<env, log, phase, config, wallet, initResult, initCalls, ledger, lastSign, lastSend, now, jupiterService, lookup>>

\* The remote service answers the POST of a lone operation (or the fetch fails).
PostResponse(i) ==
    /\ inv[i].pc = "post"
    /\ \E outcome \in FetchOutcomes :
         inv' = resume(inv, i, afterPost(inv[i], outcome))
    /\ UNCHANGED <<env, log, phase, config, wallet, initResult, initCalls, calls, ledger, lastSign, lastSend, now, jupiterService, lookup>>

\* The remote quote service answers (or the fetch fails).
QuoteResponse(i) ==
    /\ inv[i].pc = "quote"
    /\ \E outcome \in FetchOutcomes :
         \E body \in IF outcome = "ok" THEN QuoteBodies ELSE {Unset} :
           inv' = resume(inv, i, afterQuote(inv[i], outcome, body, wallet))
    /\ UNCHANGED <<env, log, phase, config, wallet, initResult, initCalls, calls, ledger, lastSign, lastSend, now, jupiterService, lookup>>

\* The remote swap (build) service answers (or the fetch fails); a swap that
\* gets as far calls sendRawTransaction.
BuildResponse(i) ==
    /\ inv[i].pc = "build"
    /\ \E outcome \in FetchOutcomes :
         \E se \in IF outcome = "ok" THEN SimulationErrors ELSE {Unset},
            bytes \in IF outcome = "ok" THEN {"tx", "garbage"} ELSE {Unset} :
           LET new == afterBuild(inv[i], outcome, se, bytes, config) IN
             /\ inv' = resume(inv, i, new)
             /\ ledger' = sendRawTransaction(ledger, inv[i], new)
    /\ UNCHANGED <<env, log, phase, config, wallet, initResult, initCalls, calls, lastSign, lastSend, now, jupiterService, lookup>>

\* sendRawTransaction settles.
SubmitResponse(i) ==
    /\ inv[i].pc = "submit"
    /\ \E outcome \in {"ok", "throw"} :
         LET new == afterSubmit(inv[i], outcome) IN
           /\ inv' = resume(inv, i, new)
           /\ ledger' = sendRawTransaction(ledger, inv[i], new)
    /\ UNCHANGED <<env, log, phase, config, wallet, initResult, initCalls, calls, lastSign, lastSend, now, jupiterService, lookup>>

\* confirmTransaction settles.
ConfirmResponse(i) ==
    /\ inv[i].pc = "confirm"
    /\ \E outcome \in {"ok", "err", "timeout"} :
         \E err \in IF outcome = "err" THEN TransactionErrors ELSE {Null} :
           inv' = resume(inv, i, afterConfirm(inv[i], outcome, err))
    /\ UNCHANGED <<env, log, phase, config, wallet, initResult, initCalls, calls, ledger, lastSign, lastSend, now, jupiterService, lookup>>

(***************************************************************************)
(* index: the CallTool dispatcher                                          *)
(***************************************************************************)
\* The registry of tools.ts: tool name -> handler.
handlers ==
    "jupiter_get_quote" :> "getQuoteHandler"
    @@ "jupiter_build_swap_transaction" :> "buildSwapTransactionHandler"
    @@ "jupiter_send_swap_transaction" :> "sendSwapTransactionHandler"
    @@ "jupiter_execute_swap" :> "executeSwapHandler"
    @@ "jupiter_v1_execute_swap" :> "executeV1SwapHandler"
    @@ "jupiter_v1_get_quote" :> "getV1QuoteHandler"

\* The registry is an object literal: a property it does not own is looked up
\* on Object.prototype.  constructor is the function Object, which returns its
\* argument; hasOwnProperty, called with no receiver, throws a TypeError.
ObjectPrototype ==
    "constructor" :> "Object"
    @@ "hasOwnProperty" :> "Object.prototype.hasOwnProperty"

\* handlers[request.params.name].
handlerFor(name) ==
    IF name \in DOMAIN handlers THEN handlers[name]
    ELSE IF name \in DOMAIN ObjectPrototype THEN ObjectPrototype[name]
    ELSE "<undefined>"

\* The names a client asks for that the registry does not hold.
UnregisteredNames == {"jupiter_no_such_tool", "constructor", "hasOwnProperty"}

\* The dispatcher on a name whose handler is none of the registered ones
\* (a registered handler runs as the Start actions say, and its result leaves
\* by Return): the lookup, the try block around the call, the catch block and
\* the fallback.
callTool(r, name) ==
    LET handler == handlerFor(name)
        r0 == [r EXCEPT !.tool = name]
        r1 == Log(r0, "debug", <<"Handling request for tool: ", name>>)
    IN IF ~Truthy(handler)
       THEN createErrorResponse(Log(r0, "warn", <<"Method not found: ", name>>),
                                <<"Method not found">>)
       ELSE IF handler = "Object"
       THEN [r1 EXCEPT !.pc = "done", !.result = "input"]
       ELSE createErrorResponse(
              Log(r1, "error", <<"Error in handler ", name, ":">>),
              <<"Cannot convert undefined or null to object">>)

CallToolUnregistered(i) ==
    /\ phase = "serving" /\ inv[i].pc = "idle" /\ calls < MaxCalls
    /\ \E name \in UnregisteredNames :
         inv' = resume(inv, i, callTool(BeginPost("CallTool", calls + 1, wallet), name))
    /\ calls' = calls + 1
    /\ UNCHANGED <<env, log, phase, config, wallet, initResult, initCalls, ledger, lastSign, lastSend, now, jupiterService, lookup>>

\* The dispatcher hands the handler's result to the client: the frame of the
\* call is gone.
Return(i) ==
    /\ inv[i].pc = "done"
    /\ inv' = resume(inv, i, Idle)
    /\ UNCHANGED <<env, log, phase, config, wallet, initResult, initCalls, calls, ledger, lastSign, lastSend, now, jupiterService, lookup>>

Start(i) ==
    \/ StartExecuteV1SwapHandler(i)
    \/ StartV1CompleteSwap(i)
    \/ StartJupiterCompleteSwap(i)
    \/ StartGetV1QuoteHandler(i)
    \/ StartGetQuoteHandler(i)
    \/ StartJupiterExecuteSwap(i)
    \/ StartV1ExecuteSwap(i)
    \/ StartBuildSwapTransactionHandler(i)
    \/ StartSendSwapTransactionHandler(i)
    \/ CallToolUnregistered(i)

\* The answers a swap pipeline awaits.
SwapRespond(i) ==
    \/ QuoteResponse(i)
    \/ BuildResponse(i)
    \/ SubmitResponse(i)
    \/ ConfirmResponse(i)

Respond(i) ==
    \/ PostResponse(i)
    \/ SwapRespond(i)

Next ==
    \/ LoadConfig
    \/ Boot
    \/ Connect
    \/ SignTransaction
    \/ SendTransactionNoOptions
    \/ \E i \in Slots : Start(i) \/ Respond(i) \/ Return(i)

Spec == Init /\ [][Next]_vars

\* Several swaps in flight at once, on a wallet that initialized or not: the
\* callers pass well-formed input, what the remote side answers is open.
ConcInit ==
    /\ env \in {e \in Envs : /\ e.SOLANA_NETWORK = NotSet
                              /\ e.SOLANA_RPC_ENDPOINT = HTTPS_ENDPOINT
                              /\ e.SOLANA_PRIVATE_KEY \in {GOOD_KEY, NotSet}
                              /\ e.LOG_LEVEL = "debug"}
    /\ log = <<>>
    /\ phase = "start"
    /\ config = NoConfig
    /\ wallet = NoKeypair
    /\ initResult = "none"
    /\ initCalls = 0
    /\ calls = 0
    /\ ledger = {}
    /\ inv = [i \in ConcSlots |-> Idle]
    /\ lastSign = NoSign
    /\ lastSend = NoSend
    /\ now = 0
    /\ jupiterService = NewJupiterService
    /\ lookup = NoLookup

WellFormedInput(r) ==
    /\ r.inputMint = SOL_MINT /\ r.outputMint = USDC_MINT
    /\ r.amount = <<"1", "2">>
    /\ r.slippage = Undefined
    /\ r.onlyDirectRoutes = NoFlag

ConcStart(i) ==
    /\ \/ StartExecuteV1SwapHandler(i)
       \/ StartV1CompleteSwap(i)
       \/ StartJupiterCompleteSwap(i)
    /\ WellFormedInput(inv'[i])

ConcNext ==
    \/ LoadConfig
    \/ Boot
    \/ Connect
    \/ \E i \in ConcSlots : ConcStart(i) \/ SwapRespond(i) \/ Return(i)

ConcSpec == ConcInit /\ [][ConcNext]_vars

\* The fairness the runtime gives: the module body runs to its end, a settled
\* promise's continuation runs, and the RPC calls of the client library
\* (sendRawTransaction, confirmTransaction) are taken to settle, by an answer
\* or by the library giving up.  Nothing makes a fetch settle: the code passes
\* it no timeout and no abort signal.
FairSpec ==
    /\ Spec
    /\ WF_vars(LoadConfig)
    /\ WF_vars(Boot)
    /\ WF_vars(Connect)
    /\ \A i \in Slots :
          WF_vars(SubmitResponse(i)) /\ WF_vars(ConfirmResponse(i)) /\ WF_vars(Return(i))

(***************************************************************************)
(* Vocabulary of the properties                                            *)
(***************************************************************************)
HasFragment(msg, fragment) == \E k \in DOMAIN msg : msg[k] = fragment

IsPrefix(s, t) == Len(s) <= Len(t) /\ \A k \in 1..Len(s) : s[k] = t[k]

Count(s, x) == Cardinality({k \in DOMAIN s : s[k] = x})

Failed(r) == r.pc = "done" /\ r.result = "error"
Succeeded(r) == r.pc = "done" /\ r.result = "ok"

\* The error kind a caller reads off a failed invocation: the code has no
\* error classes of its own, the kind is the message it composed.
ErrorKind(r) ==
    CASE HasFragment(r.msg, WALLET_NOT_INITIALIZED) -> "WalletNotInitialized"
      [] HasFragment(r.msg, "Invalid public key: ") -> "InvalidAddress"
      [] HasFragment(r.msg, INVALID_AMOUNT) -> "InvalidAmount"
      [] HasFragment(r.msg, "Simulation error: ") -> "SimulationFailed"
      [] HasFragment(r.msg, "Transaction failed: ") -> "TransactionFailed"
      [] HasFragment(r.msg, "HTTP error! status: ") -> "QuoteUnavailable"
      [] HasFragment(r.msg, "ConfirmationTimeout") -> "ConfirmationTimeout"
      [] OTHER -> "LibraryError"

\* s is the decimal representation of an integer: an optional minus sign, then
\* one digit or more, and nothing else.
IsIntegerString(s) ==
    LET body == IF s # <<>> /\ Head(s) = "-" THEN Tail(s) ELSE s
    IN  body # <<>> /\ \A k \in DOMAIN body : body[k] \in Digits

WellFormedAddress(mint) == mint \in {SOL_MINT, USDC_MINT}

(***************************************************************************)
(* C1: fail-fast.  A swap invocation that starts while the wallet service  *)
(* is not initialized ends in failure with the wallet-not-initialized      *)
(* error and has made no network call and no step of the pipeline.         *)
(***************************************************************************)
C1_FailFast ==
    \A i \in Slots :
        (inv[i].op \in SwapOps /\ ~inv[i].walletReady) =>
            /\ Failed(inv[i])
            /\ ErrorKind(inv[i]) = "WalletNotInitialized"
            /\ inv[i].steps = <<>>

C1_Witness ==
    \E i \in Slots :
        /\ inv[i].op = "V1ApiClient.completeSwap"
        /\ ~inv[i].walletReady
        /\ Failed(inv[i])
        /\ wallet._keypair # Null

(***************************************************************************)
(* C2: a build response with a non-null simulationError ends the swap in   *)
(* failure with a simulation error; the transaction is neither signed nor  *)
(* submitted.                                                              *)
(***************************************************************************)
C2_NoSignAfterSimulationError ==
    \A i \in Slots :
        (inv[i].op \in SwapOps /\ inv[i].simErr \notin {Unset, Null}) =>
            /\ Failed(inv[i])
            /\ ErrorKind(inv[i]) = "SimulationFailed"
            /\ Count(inv[i].steps, "sign") = 0
            /\ Count(inv[i].steps, "submit") = 0

(***************************************************************************)
(* C3: a malformed inputMint or outputMint makes getQuote and executeSwap  *)
(* return an invalid-address error without any network call.  (A swap      *)
(* started with the wallet uninitialized is C1's case: it fails with the   *)
(* wallet error first.)                                                    *)
(***************************************************************************)
C3_MalformedMintRejected ==
    \A i \in Slots :
        ( /\ inv[i].op \in {"getQuoteHandler", "getV1QuoteHandler",
                            "executeV1SwapHandler", "JupiterService.completeSwap"}
          /\ inv[i].op \in SwapOps => inv[i].walletReady
          /\ ~(WellFormedAddress(inv[i].inputMint) /\ WellFormedAddress(inv[i].outputMint)) ) =>
            /\ Failed(inv[i])
            /\ ErrorKind(inv[i]) = "InvalidAddress"
            /\ inv[i].steps = <<>>

(***************************************************************************)
(* C4: an amount string that is not the decimal representation of an       *)
(* integer makes getQuote and executeSwap return an invalid-amount error   *)
(* before any network call.  (The wallet and mint checks come first: the   *)
(* claim is stated of the invocations that pass them.)                     *)
(***************************************************************************)
C4_NonIntegerAmountRejected ==
    \A i \in Slots :
        ( /\ inv[i].op \in {"getV1QuoteHandler", "executeV1SwapHandler",
                            "JupiterService.completeSwap"}
          /\ inv[i].op \in SwapOps => inv[i].walletReady
          /\ WellFormedAddress(inv[i].inputMint) /\ WellFormedAddress(inv[i].outputMint)
          /\ ~IsIntegerString(inv[i].amount) ) =>
            /\ Failed(inv[i])
            /\ ErrorKind(inv[i]) = "InvalidAmount"
            /\ inv[i].steps = <<>>

C6_StepsInOrder ==
    \A i \in Slots :
        /\ IsPrefix(inv[i].steps, PIPELINE)
        /\ \A k \in DOMAIN PIPELINE : Count(inv[i].steps, PIPELINE[k]) <= 1
        /\ (inv[i].op \in SwapOps /\ Succeeded(inv[i])) => inv[i].steps = PIPELINE

\* A step only adds to the steps run; the step that ends an invocation in
\* failure runs nothing more; an ended invocation does nothing but return.
C6_NoStepAfterEnd ==
    \A i \in Slots :
        /\ inv[i].pc = "done" => (inv'[i] = inv[i] \/ inv'[i] = Idle)
        /\ inv[i].pc \notin {"idle", "done"} =>
              (IsPrefix(inv[i].steps, inv'[i].steps) /\ inv'[i].op = inv[i].op)
        /\ (Failed(inv'[i]) /\ inv[i].pc \notin {"idle", "done"}) =>
              inv'[i].steps = inv[i].steps

(***************************************************************************)
(* C6: within one swap invocation the steps run in the order quote, build, *)
(* sign, submit, confirm, each at most once; a step runs only after every  *)
(* earlier one completed without error; no step is entered again and an    *)
(* ended invocation runs no further step.                                  *)
(***************************************************************************)
C6_StrictSequence == []C6_StepsInOrder /\ [][C6_NoStepAfterEnd]_vars

C6_Witness ==
    \E i \in Slots :
        /\ inv[i].op = "JupiterService.completeSwap"
        /\ Succeeded(inv[i])
        /\ inv[i].steps = PIPELINE

(***************************************************************************)
(* C7: every swap invocation eventually reaches Succeeded or Failed, also  *)
(* when the remote side never answers.                                     *)
(***************************************************************************)
C7_EveryInvocationEnds ==
    \A i \in Slots : (inv[i].pc \notin {"idle", "done"}) ~> (inv[i].pc = "done")

(***************************************************************************)
(* C8: the keypair and the connection of the wallet service are both       *)
(* present or both absent: publicKey and signTransaction work only while   *)
(* isInitialized is true.                                                  *)
(***************************************************************************)
C8_KeypairAndConnectionTogether ==
    /\ (wallet._keypair = Null) <=> (wallet._connection = Null)
    /\ ~publicKey(wallet).threw => isInitialized(wallet)
    /\ (lastSign.called /\ ~lastSign.threw) => isInitialized(wallet)

(***************************************************************************)
(* C9: signTransaction produces a signed transaction only after an         *)
(* initialize() call that returned true; otherwise it fails with the       *)
(* not-initialized error.                                                  *)
(***************************************************************************)
C9_SignNeedsSuccessfulInitialize ==
    (lastSign.called /\ initResult # "true") =>
        lastSign.threw /\ lastSign.value = <<"Wallet not initialized">>

(***************************************************************************)
(* C10: initialize never throws; without a private key it returns false    *)
(* and leaves the wallet uninitialized; with a key that cannot be decoded  *)
(* it returns false; it returns true only if isInitialized holds after it. *)
(***************************************************************************)
C10_InitializeNeverThrows ==
    /\ initResult # "threw"
    /\ phase = "serving" => initResult \in {"true", "false"}
    /\ (phase = "serving" /\ config.privateKey = "") =>
          initResult = "false" /\ wallet = NoKeypair
    /\ (phase = "serving" /\ ~DecodesToKeypair(config.privateKey)) =>
          initResult = "false" /\ ~isInitialized(wallet)
    /\ initResult = "true" => isInitialized(wallet)

C10_Witness ==
    /\ phase = "serving"
    /\ config.privateKey \notin {"", GOOD_KEY}
    /\ initResult = "false"
    /\ ~isInitialized(wallet)

(***************************************************************************)
(* Vocabulary of the properties: an invocation run alone                   *)
(***************************************************************************)
\* The frame of an invocation at its first await, from its input alone.
StartAlone(r, w) ==
    LET b == WithRoutes(Begin(r.op, r.id, r.inputMint, r.outputMint, r.amount, r.slippage, w),
                        r.onlyDirectRoutes) IN
    CASE r.op = "executeV1SwapHandler" -> executeV1SwapHandler(b, w)
      [] r.op = "V1ApiClient.completeSwap" ->
           V1completeSwap(b, w, parseInt(r.amount), defaultParameter(r.slippage))
      [] r.op = "JupiterService.completeSwap" -> JupiterCompleteSwap(b, w)
      [] r.op = "getV1QuoteHandler" -> getV1QuoteHandler(b)
      [] r.op = "getQuoteHandler" -> getQuoteHandler(b)
      [] OTHER -> b

\* One remote answer h given to the frame f.
AnswerAlone(f, h, w, cfg) ==
    CASE f.pc = "quote" -> afterQuote(f, h.outcome, h.body, w)
      [] f.pc = "build" -> afterBuild(f, h.outcome, h.simulationError, h.bytes, cfg)
      [] f.pc = "submit" -> afterSubmit(f, h.outcome)
      [] f.pc = "confirm" -> afterConfirm(f, h.outcome, h.err)
      [] f.pc = "post" -> afterPost(f, h.outcome)
      [] OTHER -> f

RECURSIVE ReplayAlone(_, _, _, _)
ReplayAlone(f, answers, w, cfg) ==
    IF answers = <<>> THEN f
    ELSE ReplayAlone(AnswerAlone(f, Head(answers), w, cfg), Tail(answers), w, cfg)

\* The frame the invocation of r reaches when it runs alone, with the wallet
\* w, on the input of r and the remote answers r heard.
RunAlone(r, w, cfg) == ReplayAlone(StartAlone(r, w), r.heard, w, cfg)

\* The states the wallet service can be in.
WalletStates ==
    { NoKeypair,
      [_keypair |-> GOOD_KEY, _connection |-> Null],
      [_keypair |-> GOOD_KEY, _connection |-> HTTPS_ENDPOINT] }

\* The answer the k-th remote call of r settled to, if it has settled.
HeardAt(r, k, outcomes) == Len(r.heard) >= k /\ r.heard[k].outcome \in outcomes

(***************************************************************************)
(* C11: a swap invocation succeeds only if its confirm step returned and   *)
(* reported no execution error, for the signature sendRawTransaction       *)
(* returned to this invocation for the transaction it submitted; the       *)
(* SwapResult carries that signature.                                      *)
(***************************************************************************)
C11_SuccessOnlyAfterCleanConfirm ==
    \A i \in Slots :
        (inv[i].op \in SwapOps /\ Succeeded(inv[i])) =>
            /\ Len(inv[i].heard) = 4
            /\ inv[i].heard[4].outcome = "ok" /\ inv[i].heard[4].err = Null
            /\ inv[i].heard[3].outcome = "ok"
            /\ inv[i].confirmedSig = SignatureOf(inv[i].signedTx)
            /\ inv[i].signedTx.transaction.req = inv[i].id
            /\ [by |-> inv[i].id, signed |-> inv[i].signedTx] \in ledger
            /\ inv[i].swapResult.signature = inv[i].confirmedSig

C11_Witness ==
    \E i \in Slots :
        /\ inv[i].op = "V1ApiClient.completeSwap"
        /\ Succeeded(inv[i])
        /\ inv[i].swapResult.signature = SignatureOf(inv[i].signedTx)

(***************************************************************************)
(* C12: whenever the confirm step reports an execution error, the swap     *)
(* ends in Failed with the transaction-failed error, whose message carries *)
(* the network's error payload as JSON text, and no SwapResult is returned.*)
(***************************************************************************)
C12_ExecutionErrorIsTransactionFailed ==
    \A i \in Slots :
        (inv[i].op \in SwapOps /\ HeardAt(inv[i], 4, {"err"})) =>
            /\ Failed(inv[i])
            /\ ErrorKind(inv[i]) = "TransactionFailed"
            /\ \/ /\ inv[i].heard[4].err = ACCOUNT_IN_USE
                  /\ HasFragment(inv[i].msg, "\"AccountInUse\"")
               \/ /\ inv[i].heard[4].err = INSTRUCTION_ERROR
                  /\ HasFragment(inv[i].msg, "{\"InstructionError\":[2,{\"Custom\":6001}]}")
            /\ inv[i].swapResult = NoSwapResult

C12_Witness ==
    \E i \in Slots :
        /\ inv[i].op = "JupiterService.completeSwap"
        /\ HeardAt(inv[i], 4, {"err"})
        /\ inv[i].heard[4].err = INSTRUCTION_ERROR
        /\ Failed(inv[i])

(***************************************************************************)
(* C13: if the quote request fails, by a network error or a non-OK status, *)
(* the swap ends in Failed with the error getQuote threw; no build, sign,  *)
(* submit or confirm step runs, and the quote request is made once.        *)
(***************************************************************************)
C13_QuoteFailureEndsSwap ==
    \A i \in Slots :
        (inv[i].op \in SwapOps /\ HeardAt(inv[i], 1, {"reject", "http"})) =>
            /\ Failed(inv[i])
            /\ inv[i].steps = <<"quote">>
            /\ Len(inv[i].heard) = 1
            /\ \E pre \in {<<>>, <<"Error executing V1 API swap: ">>} :
                  inv[i].msg = pre \o (IF inv[i].heard[1].outcome = "reject"
                                       THEN FETCH_FAILED
                                       ELSE <<"HTTP error! status: ", "500">>)
            /\ inv[i].swapResult = NoSwapResult

C13_Witness ==
    \E i \in Slots :
        /\ inv[i].op = "executeV1SwapHandler"
        /\ HeardAt(inv[i], 1, {"http"})
        /\ Failed(inv[i])
        /\ ErrorKind(inv[i]) = "QuoteUnavailable"

(***************************************************************************)
(* C14: an OK quote response whose body lacks the fields of a Quote makes  *)
(* getQuote fail: it is not returned as a quote and is not passed on to    *)
(* the transaction builder.                                                *)
(***************************************************************************)
C14_MalformedQuoteRejected ==
    \A i \in Slots :
        ( /\ inv[i].op \in SwapOps \cup {"getV1QuoteHandler"}
          /\ HeardAt(inv[i], 1, {"ok"})
          /\ inv[i].heard[1].body = "empty" ) =>
            /\ Failed(inv[i])
            /\ Count(inv[i].steps, "build") = 0
            /\ inv[i].buildQuote = NoQuote

(***************************************************************************)
(* C15: if sendRawTransaction fails, the swap ends in Failed without a     *)
(* second submit and without a confirm; a swap calls submit at most once.  *)
(***************************************************************************)
C15_SubmitFailureEndsSwap ==
    \A i \in Slots :
        /\ Count(inv[i].steps, "submit") <= 1
        /\ Cardinality({e \in ledger : e.by = inv[i].id}) <= 1
        /\ (inv[i].op \in SwapOps /\ HeardAt(inv[i], 3, {"throw"})) =>
              /\ Failed(inv[i])
              /\ Count(inv[i].steps, "submit") = 1
              /\ Count(inv[i].steps, "confirm") = 0
              /\ Len(inv[i].heard) = 3
              /\ inv[i].confirmedSig = NoSignature

C15_Witness ==
    \E i \in Slots :
        /\ inv[i].op = "executeV1SwapHandler"
        /\ HeardAt(inv[i], 3, {"throw"})
        /\ Failed(inv[i])
        /\ [by |-> inv[i].id, signed |-> inv[i].signedTx] \in ledger

(***************************************************************************)
(* C16: the outcome of getV1QuoteHandler and getQuoteHandler does not      *)
(* depend on the wallet: on the same input and the same remote answers the *)
(* run gives the same result in every state of the wallet, and never the   *)
(* wallet-not-initialized error.                                           *)
(***************************************************************************)
C16_QuoteIndependentOfWallet ==
    \A i \in Slots :
        inv[i].op \in QuoteOps =>
            /\ ~HasFragment(inv[i].msg, WALLET_NOT_INITIALIZED)
            /\ \A w \in WalletStates :
                  LET alone == RunAlone(inv[i], w, config) IN
                    /\ alone.pc = inv[i].pc
                    /\ alone.result = inv[i].result
                    /\ alone.msg = inv[i].msg
                    /\ alone.steps = inv[i].steps
                    /\ alone.quoteAmount = inv[i].quoteAmount
                    /\ alone.slippageSent = inv[i].slippageSent

C16_Witness ==
    \E i \in Slots :
        /\ inv[i].op = "getV1QuoteHandler"
        /\ ~inv[i].walletReady
        /\ Succeeded(inv[i])
        /\ inv[i].quote.outAmount = "1000"

\* Every frame is the frame its invocation reaches when run alone on the
\* answers it heard, and holds no object of another invocation.
C17_FrameIsOwn ==
    \A i \in DOMAIN inv :
        /\ inv[i].pc # "idle" => inv[i] = RunAlone(inv[i], wallet, config)
        /\ inv[i].quote.req \in {0, inv[i].id}
        /\ inv[i].buildQuote.req \in {0, inv[i].id}
        /\ inv[i].swapTransaction.req \in {0, inv[i].id}
        /\ inv[i].signedTx.transaction.req \in {0, inv[i].id}
        /\ inv[i].confirmedSig.signed.transaction.req \in {0, inv[i].id}

\* A step of one invocation leaves the frames of the others as they are.
C17_StepWritesOwnFrame ==
    \A i, j \in DOMAIN inv :
        (i # j /\ inv'[i] # inv[i]) => inv'[j] = inv[j]

(***************************************************************************)
(* C17: under every interleaving of concurrent swap invocations sharing    *)
(* the wallet service, the result of each invocation is the one it gives   *)
(* when run alone on the same remote answers; no invocation reads or       *)
(* overwrites the quote, transaction or signature of another.              *)
(***************************************************************************)
C17_ConcurrentSwapsIsolated == []C17_FrameIsOwn /\ [][C17_StepWritesOwnFrame]_vars

C17_Witness ==
    \E i, j \in DOMAIN inv :
        /\ i # j
        /\ inv[i].op \in SwapOps /\ Succeeded(inv[i])
        /\ inv[j].op \in SwapOps /\ inv[j].pc = "confirm"
        /\ inv[j].id < inv[i].id

(***************************************************************************)
(* C18: replay safety.  Every signed transaction handed to submit was      *)
(* built for and signed in the invocation that submits it, from the quote  *)
(* that invocation fetched; no two invocations submit the same signed      *)
(* transaction; and nothing of an invocation is kept once it has ended.    *)
(***************************************************************************)
C18_ReplaySafety ==
    /\ \A e \in ledger :
          /\ e.by > 0
          /\ e.signed.transaction.req = e.by
          /\ e.signed.transaction.quote.req = e.by
          /\ e.signed.signer = config.privateKey
    /\ \A e1, e2 \in ledger : e1.signed = e2.signed => e1.by = e2.by
    /\ \A i \in DOMAIN inv :
          /\ Count(inv[i].steps, "submit") > 0 =>
                /\ inv[i].signedTx = Sign(inv[i].swapTransaction, config.privateKey)
                /\ inv[i].swapTransaction.req = inv[i].id
                /\ inv[i].swapTransaction.quote = inv[i].quote
                /\ inv[i].quote.req = inv[i].id
                /\ [by |-> inv[i].id, signed |-> inv[i].signedTx] \in ledger
          /\ inv[i].pc = "idle" => inv[i] = Idle
          /\ \A j \in DOMAIN inv :
                (i # j /\ inv[i].signedTx # NoSigned) => inv[j].signedTx # inv[i].signedTx

C18_Witness ==
    /\ Cardinality(ledger) = 2
    /\ \E i \in DOMAIN inv : inv[i].pc = "idle" /\ \E e \in ledger : e.by = 1
    /\ \E j \in DOMAIN inv : inv[j].pc = "confirm" /\ inv[j].id = 2

\* Once the server takes requests, no step changes the wallet service.
C19_WalletUnchangedWhileServing ==
    phase = "serving" => wallet' = wallet

(***************************************************************************)
(* C19: the wallet service is initialized at most once, and after that no  *)
(* operation, whether it succeeds or fails, changes the keypair or the     *)
(* connection it holds.                                                    *)
(***************************************************************************)
C19_InitializedOnce == [](initCalls <= 1) /\ [][C19_WalletUnchangedWhileServing]_vars

C19_Witness ==
    /\ initCalls = 1
    /\ isInitialized(wallet)
    /\ lastSign.called /\ lastSign.threw
    /\ lastSend.called /\ lastSend.threw
    /\ \E i \in Slots : inv[i].op \in SwapOps /\ Failed(inv[i]) /\ inv[i].id = 2

(***************************************************************************)
(* C20: the slippageBps sent in the quote request is the caller's value    *)
(* whenever the caller gave one, 0 included, and 50 exactly when the       *)
(* caller left it out, in getQuoteHandler, getV1QuoteHandler,              *)
(* executeV1SwapHandler and JupiterService.completeSwap.                   *)
(***************************************************************************)
C20_SlippageSentAsGiven ==
    \A i \in Slots :
        ( /\ inv[i].op \in {"getQuoteHandler", "getV1QuoteHandler",
                            "executeV1SwapHandler", "JupiterService.completeSwap"}
          /\ Count(inv[i].steps, "quote") > 0 ) =>
            /\ inv[i].slippageSent.present
            /\ inv[i].slippage.given =>
                  inv[i].slippageSent.value = NatToString(inv[i].slippage.bps)
            /\ ~inv[i].slippage.given =>
                  inv[i].slippageSent.value = <<"5", "0">>

\* The startup of the process in every environment, and the wallet service
\* used after it.
StartupInit ==
    /\ env \in Envs
    /\ log = <<>>
    /\ phase = "start"
    /\ config = NoConfig
    /\ wallet = NoKeypair
    /\ initResult = "none"
    /\ initCalls = 0
    /\ calls = 0
    /\ ledger = {}
    /\ inv = [i \in Slots |-> Idle]
    /\ lastSign = NoSign
    /\ lastSend = NoSend
    /\ now = 0
    /\ jupiterService = NewJupiterService
    /\ lookup = NoLookup

StartupNext ==
    \/ LoadConfig
    \/ Boot
    \/ Connect
    \/ SignTransaction
    \/ SendTransaction

StartupSpec == StartupInit /\ [][StartupNext]_vars

(***************************************************************************)
(* The token operations of JupiterService, and the clock                   *)
(***************************************************************************)
Tick ==
    /\ now < MaxTime * TICK
    /\ now' = now + TICK
    /\ UNCHANGED <<env, log, phase, config, wallet, initResult, initCalls, calls, ledger, inv,
                   lastSign, lastSend, jupiterService, lookup>>

\* loadTokenList, searchTokens or getTokenByMint is called.
StartLookup ==
    /\ lookup.pc = "idle"
    /\ \E op \in TokenOps : lookup' = startLookup(op, jupiterService, now)
    /\ UNCHANGED <<env, log, phase, config, wallet, initResult, initCalls, calls, ledger, inv,
                   lastSign, lastSend, now, jupiterService>>

\* The fetch of the token list settles.
TokenListResponse ==
    /\ lookup.pc = "fetch"
    /\ \E outcome \in {"ok", "http", "reject"} :
         /\ jupiterService' = storeTokenList(jupiterService, lookup, outcome, now)
         /\ lookup' = afterTokenList(jupiterService, lookup, outcome, now)
    /\ UNCHANGED <<env, log, phase, config, wallet, initResult, initCalls, calls, ledger, inv,
                   lastSign, lastSend, now>>

\* The operation returns to its caller.
LookupReturn ==
    /\ lookup.pc = "done"
    /\ lookup' = NoLookup
    /\ UNCHANGED <<env, log, phase, config, wallet, initResult, initCalls, calls, ledger, inv,
                   lastSign, lastSend, now, jupiterService>>

TokenNext ==
    \/ Tick
    \/ StartLookup
    \/ TokenListResponse
    \/ LookupReturn

TokenSpec == Init /\ [][TokenNext]_vars

(***************************************************************************)
(* Vocabulary of the properties: requests and outputs                      *)
(***************************************************************************)
\* The operations that send the quote request through V1ApiClient.getQuote
\* or JupiterService.getQuote.
ServiceQuoteOps ==
    {"getV1QuoteHandler", "executeV1SwapHandler", "V1ApiClient.completeSwap",
     "JupiterService.completeSwap"}

QuoteSent(r) == Count(r.steps, "quote") > 0

ToolHandlers ==
    {"executeV1SwapHandler", "getV1QuoteHandler", "getQuoteHandler",
     "buildSwapTransactionHandler", "sendSwapTransactionHandler"}

\* The outcomes of a remote call that are failures.
FailureOutcomes == {"reject", "badjson", "http", "throw", "timeout", "err"}

\* The texts in which the failure h of a remote call is reported.
UnderlyingMessages(h) ==
    CASE h.outcome = "reject" -> {FETCH_FAILED[1]}
      [] h.outcome = "badjson" -> {JSON_FAILED[1]}
      [] h.outcome = "http" -> {"500", "500 Internal Server Error"}
      [] h.outcome = "throw" -> {SEND_FAILED[1]}
      [] h.outcome = "timeout" -> {CONFIRM_TIMED_OUT[1]}
      [] h.outcome = "err" -> {JSONstringify(h.err)}
      [] OTHER -> {}

\* The secret key the process was given, in any form it holds it.
Secrets == {config.privateKey, env.SOLANA_PRIVATE_KEY} \ {"", NotSet}

\* Every text the process has written or returned: the lines of the log, the
\* lines the calls in flight have logged, the results and the error messages.
Outputs ==
    {log[k].text : k \in DOMAIN log}
    \cup UNION {{l.text : l \in {logger(env, inv[i].logged)[k] :
                                    k \in DOMAIN logger(env, inv[i].logged)}} : i \in DOMAIN inv}
    \cup {inv[i].msg : i \in DOMAIN inv}
    \cup {l.text : l \in {lastSign.logged[k] : k \in DOMAIN lastSign.logged}}
    \cup {l.text : l \in {lastSend.logged[k] : k \in DOMAIN lastSend.logged}}
    \cup (IF lastSign.threw THEN {lastSign.value} ELSE {})
    \cup (IF lastSend.called THEN {lastSend.value} ELSE {})

C22_DirectRoutesRequested ==
    \A i \in Slots :
        ( /\ inv[i].op \in ServiceQuoteOps
          /\ QuoteSent(inv[i])
          /\ inv[i].onlyDirectRoutes = Flag(TRUE) ) =>
            inv[i].routeSent.onlyDirectRoutes = "true"

(***************************************************************************)
(* C23: no quote request is sent with a negative amount: the amount of     *)
(* every quote request sent is the decimal text of a non-negative integer. *)
(***************************************************************************)
C23_NoNegativeAmountSent ==
    \A i \in Slots :
        ( /\ inv[i].op \in {"getV1QuoteHandler", "executeV1SwapHandler",
                            "JupiterService.completeSwap"}
          /\ QuoteSent(inv[i]) ) =>
            /\ IsIntegerString(inv[i].quoteAmount)
            /\ Head(inv[i].quoteAmount) # "-"

C25_HandlersReturnStructuredResult ==
    \A i \in Slots :
        inv[i].op \in ToolHandlers =>
            /\ ~inv[i].thrown
            /\ inv[i].pc = "done" => (inv[i].result \in {"ok", "error"} /\ inv[i].msg # <<>>)
            /\ (inv[i].pc = "done" /\ inv[i].heard = <<>>) => Failed(inv[i])
            /\ \A k \in DOMAIN inv[i].heard :
                  inv[i].heard[k].outcome \in FailureOutcomes =>
                      /\ Failed(inv[i])
                      /\ \E text \in UnderlyingMessages(inv[i].heard[k]) :
                            HasFragment(inv[i].msg, text)
            /\ inv[i].simErr \notin {Unset, Null} =>
                  Failed(inv[i]) /\ HasFragment(inv[i].msg, inv[i].simErr)
            /\ (HeardAt(inv[i], 2, {"ok"}) /\ inv[i].heard[2].simulationError = Null
                  /\ inv[i].heard[2].bytes = "garbage") =>
                  Failed(inv[i]) /\ HasFragment(inv[i].msg, DESERIALIZE_FAILED[1])
            /\ Succeeded(inv[i]) =>
                  /\ inv[i].heard # <<>>
                  /\ \A k \in DOMAIN inv[i].heard : inv[i].heard[k].outcome = "ok"
                  /\ inv[i].simErr \in {Unset, Null}
                  /\ inv[i].op = "executeV1SwapHandler" =>
                        inv[i].steps = PIPELINE /\ Len(inv[i].heard) = 4

C25_Witness ==
    \E i \in Slots :
        /\ inv[i].op = "buildSwapTransactionHandler"
        /\ HeardAt(inv[i], 1, {"reject"})
        /\ Failed(inv[i])
        /\ HasFragment(inv[i].msg, "fetch failed")

(***************************************************************************)
(* C26: buildSwapTransactionHandler sends its build request only if        *)
(* userPublicKey is a valid public key and quoteResponse parses; with      *)
(* userPublicKey absent or invalid it returns an error containing          *)
(* 'Invalid public key' and makes no network call, whatever the            *)
(* quoteResponse.                                                          *)
(***************************************************************************)
C26_BuildNeedsValidPublicKey ==
    \A i \in Slots :
        inv[i].op = "buildSwapTransactionHandler" =>
            /\ inv[i].posted.sent =>
                  /\ WellFormedAddress(inv[i].userPublicKey)
                  /\ inv[i].quoteResponse = QUOTE_JSON
            /\ ~WellFormedAddress(inv[i].userPublicKey) =>
                  /\ Failed(inv[i])
                  /\ HasFragment(inv[i].msg, "Invalid public key: ")
                  /\ ~inv[i].posted.sent
                  /\ inv[i].heard = <<>>

C26_Witness ==
    \E i \in Slots :
        /\ inv[i].op = "buildSwapTransactionHandler"
        /\ inv[i].userPublicKey = Missing
        /\ inv[i].quoteResponse = "not json"
        /\ Failed(inv[i])
        /\ HasFragment(inv[i].msg, "Invalid public key: ")

(***************************************************************************)
(* C27: sendSwapTransactionHandler returns the error 'Either               *)
(* swapTransaction or serializedTransaction must be provided' without a    *)
(* network call when neither is supplied, and sends its request only when  *)
(* at least one of the two is present.                                     *)
(***************************************************************************)
C27_SendNeedsATransaction ==
    \A i \in Slots :
        inv[i].op = "sendSwapTransactionHandler" =>
            /\ ( /\ inv[i].swapTransactionInput \in {Missing, ""}
                 /\ inv[i].serializedTransaction \in {Missing, ""} ) =>
                  /\ Failed(inv[i])
                  /\ inv[i].msg =
                        <<"Either swapTransaction or serializedTransaction must be provided">>
                  /\ ~inv[i].posted.sent
                  /\ inv[i].heard = <<>>
            /\ inv[i].posted.sent =>
                  /\ \/ inv[i].swapTransactionInput \notin {Missing, ""}
                     \/ inv[i].serializedTransaction \notin {Missing, ""}
                  /\ inv[i].posted.body # {}

C27_Witness ==
    \E i \in Slots :
        /\ inv[i].op = "sendSwapTransactionHandler"
        /\ inv[i].swapTransactionInput = Missing
        /\ inv[i].serializedTransaction = Missing
        /\ Failed(inv[i])

(***************************************************************************)
(* C28: the network held in the configuration is one of 'mainnet-beta',    *)
(* 'testnet' and 'devnet' for every value of SOLANA_NETWORK; an unset or   *)
(* unrecognized value yields 'mainnet-beta'.                               *)
(***************************************************************************)
C28_NetworkIsNamed ==
    phase # "start" =>
        /\ config.network \in {"mainnet-beta", "testnet", "devnet"}
        /\ env.SOLANA_NETWORK \notin {"mainnet-beta", "testnet", "devnet"} =>
              config.network = "mainnet-beta"

C30_SecretNeverObservable ==
    /\ \A text \in Outputs : \A k \in DOMAIN text : text[k] \notin Secrets
    /\ \A k \in DOMAIN log :
          /\ HasFragment(log[k].text, "privateKey: ") =>
                log[k].text[Len(log[k].text)] =
                    (IF config.privateKey # "" THEN "***REDACTED***" ELSE "Not provided")
          /\ HasFragment(log[k].text, "Wallet initialized with public key: ") =>
                log[k].text[Len(log[k].text)] = PublicKeyOf(wallet._keypair)

C30_Witness ==
    /\ phase = "serving"
    /\ initResult = "false"
    /\ config.privateKey \notin {"", GOOD_KEY}
    /\ \E k \in DOMAIN log : HasFragment(log[k].text, "***REDACTED***")
    /\ \E k \in DOMAIN log : HasFragment(log[k].text, "Failed to initialize wallet:")
    /\ \E i \in Slots : Failed(inv[i]) /\ HasFragment(inv[i].msg, WALLET_NOT_INITIALIZED)

(***************************************************************************)
(* The commitment levels of the network, by the finality they stand for.   *)
(***************************************************************************)
CommitmentRank(level) ==
    CASE level = "processed" -> 1
      [] level = "confirmed" -> 2
      [] level = "finalized" -> 3
      [] OTHER -> 0

(***************************************************************************)
(* C31: a swap result reports a confirmationStatus no higher than the      *)
(* commitment level its confirm step waited for: 'confirmed' is reported   *)
(* only if the transaction was awaited at 'confirmed' or above.            *)
(***************************************************************************)
C31_StatusWithinAwaitedCommitment ==
    \A i \in Slots :
        inv[i].swapResult # NoSwapResult =>
            CommitmentRank(inv[i].swapResult.confirmationStatus)
                <= CommitmentRank(inv[i].commitment)

(***************************************************************************)
(* C32: sendTransaction broadcasts with the skipPreflight and maxRetries   *)
(* the caller gives (maxRetries=0 included), with skipPreflight=false and  *)
(* maxRetries=3 when they are left out; without a connection it makes no   *)
(* broadcast call and fails with 'Connection not initialized'.             *)
(***************************************************************************)
C32_BroadcastOptionsAsGiven ==
    lastSend.called =>
        /\ wallet._connection = Null =>
              /\ ~lastSend.broadcast.sent
              /\ lastSend.threw
              /\ lastSend.value = <<"Connection not initialized">>
        /\ wallet._connection # Null =>
              /\ lastSend.broadcast.sent
              /\ lastSend.broadcast.skipPreflight =
                    (IF lastSend.options.skipPreflight.given
                     THEN lastSend.options.skipPreflight.on ELSE FALSE)
              /\ lastSend.broadcast.maxRetries =
                    (IF lastSend.options.maxRetries.given
                     THEN lastSend.options.maxRetries.n ELSE 3)

(***************************************************************************)
(* C33: searchTokens and getTokenByMint never answer from a token list     *)
(* fetched more than CACHE_DURATION ago (a lookup made when the list is    *)
(* older reloads it first), and a lookup within the cache duration makes   *)
(* no fetch.                                                               *)
(***************************************************************************)
C33_NoAnswerFromStaleList ==
    /\ lookup.answered => lookup.at - lookup.from.fetchedAt <= CACHE_DURATION
    /\ (lookup.op \in {"searchTokens", "getTokenByMint"} /\ lookup.fetched) =>
          ~cacheIsFresh(jupiterService, lookup.startedAt)
             \/ jupiterService.lastTokenListFetchTime = lookup.startedAt

C35_FirstFailingCheckDecides ==
    \A i \in Slots :
        inv[i].op = "executeV1SwapHandler" =>
            LET r == inv[i]
                stopped == Failed(r) /\ r.steps = <<>> /\ r.heard = <<>> /\ ~r.posted.sent
            IN  /\ ~r.walletReady =>
                      stopped /\ r.msg[1] = "Wallet not initialized. Cannot execute swap."
                /\ (r.walletReady /\ ~WellFormedAddress(r.inputMint)) =>
                      stopped /\ r.msg = <<"Invalid public key: ", r.inputMint>>
                /\ (r.walletReady /\ WellFormedAddress(r.inputMint)
                       /\ ~WellFormedAddress(r.outputMint)) =>
                      stopped /\ r.msg = <<"Invalid public key: ", r.outputMint>>
                /\ (r.walletReady /\ WellFormedAddress(r.inputMint)
                       /\ WellFormedAddress(r.outputMint) /\ isNaN(parseInt(r.amount))) =>
                      stopped /\ r.msg = <<"Invalid amount. Please provide a valid number.">>
                /\ r.steps # <<>> =>
                      /\ r.walletReady
                      /\ WellFormedAddress(r.inputMint) /\ WellFormedAddress(r.outputMint)
                      /\ ~isNaN(parseInt(r.amount))

C35_Witness ==
    \E i \in Slots :
        /\ inv[i].op = "executeV1SwapHandler"
        /\ ~inv[i].walletReady
        /\ inv[i].inputMint = BAD_MINT /\ inv[i].outputMint = BAD_MINT
        /\ isNaN(parseInt(inv[i].amount))
        /\ Failed(inv[i])
        /\ inv[i].msg[1] = WALLET_NOT_INITIALIZED

(***************************************************************************)
(* C36: in every swap that reaches the sign step, the key that signs the   *)
(* transaction is the key whose public identity was sent to the builder as *)
(* userPublicKey; the key decoded from the configured secret and the       *)
(* wallet service's keypair are the same key.                              *)
(***************************************************************************)
C36_SignerIsTheDeclaredIdentity ==
    /\ wallet._keypair # Null => wallet._keypair = config.privateKey
    /\ \A i \in Slots :
          inv[i].signedTx # NoSigned =>
              /\ "userPublicKey" \in inv[i].posted.body
              /\ inv[i].userPublicKey = PublicKeyOf(inv[i].signedTx.signer)
              /\ inv[i].signedTx.signer = wallet._keypair

C36_Witness ==
    \E i \in Slots :
        /\ inv[i].op = "JupiterService.completeSwap"
        /\ inv[i].signedTx # NoSigned
        /\ inv[i].userPublicKey = PublicKeyOf(GOOD_KEY)
        /\ inv[i].signedTx.signer = GOOD_KEY

\* The quote request of a frame: what the remote service is asked.
QuoteRequest(r) ==
    [inputMint |-> r.inputMint, outputMint |-> r.outputMint, amount |-> r.quoteAmount,
     slippageBps |-> r.slippageSent,
     restrictIntermediateTokens |-> r.routeSent.restrictIntermediateTokens]

\* The frame the other of the two V1 handlers reaches on the input of r.
OtherV1Handler(r) ==
    IF r.op = "getV1QuoteHandler"
    THEN executeV1SwapHandler(
             WithRoutes(Begin("executeV1SwapHandler", r.id, r.inputMint, r.outputMint,
                              r.amount, r.slippage, wallet), r.onlyDirectRoutes), wallet)
    ELSE getV1QuoteHandler(
             WithRoutes(Begin("getV1QuoteHandler", r.id, r.inputMint, r.outputMint,
                              r.amount, r.slippage, wallet), r.onlyDirectRoutes))

(***************************************************************************)
(* C37: on every input both accept, getV1QuoteHandler and                  *)
(* executeV1SwapHandler send the same quote request: the same inputMint,   *)
(* outputMint, amount, slippageBps and restrictIntermediateTokens.         *)
(***************************************************************************)
C37_QuoteAndSwapAskTheSame ==
    \A i \in Slots :
        ( /\ inv[i].op \in {"getV1QuoteHandler", "executeV1SwapHandler"}
          /\ QuoteSent(inv[i])
          /\ QuoteSent(OtherV1Handler(inv[i])) ) =>
            QuoteRequest(OtherV1Handler(inv[i])) = QuoteRequest(inv[i])

C37_Witness ==
    \E i \in Slots :
        /\ inv[i].op = "getV1QuoteHandler"
        /\ inv[i].onlyDirectRoutes = Flag(TRUE)
        /\ inv[i].slippage = Bps(100)
        /\ QuoteSent(inv[i])
        /\ QuoteSent(OtherV1Handler(inv[i]))
        /\ inv[i].routeSent.restrictIntermediateTokens = "false"

(***************************************************************************)
(* C38: walletService.initialize() has returned before the server connects *)
(* to its transport and before any tool handler runs: every tool           *)
(* invocation sees the final state of the wallet, initialized or not, and  *)
(* the wallet does not change while requests are served.                   *)
(***************************************************************************)
C38_InitializeReturnsBeforeServing ==
    /\ phase = "serving" => (initCalls = 1 /\ initResult \in {"true", "false"})
    /\ \A i \in Slots :
          inv[i].pc # "idle" =>
              /\ phase = "serving"
              /\ initResult \in {"true", "false"}
              /\ inv[i].walletReady = isInitialized(wallet)
              /\ inv[i].walletReady = (initResult = "true")

C38_Witness ==
    /\ phase = "serving"
    /\ initResult = "false"
    /\ \E i \in Slots : inv[i].op = "getV1QuoteHandler" /\ inv[i].pc = "quote"
                          /\ ~inv[i].walletReady

(* C39: the dispatcher answers every CallTool request with a result, and a   *)
(* request naming a tool with no registered handler gets the error result    *)
(* 'Method not found' with isError = true.                                   *)
C39_UnregisteredToolIsMethodNotFound ==
    \A i \in Slots :
        (inv[i].pc = "done" /\ inv[i].op = "CallTool" /\ inv[i].tool \notin DOMAIN handlers)
            => /\ inv[i].result = "error"
               /\ inv[i].msg = <<"Method not found">>

====
